---- MODULE Spec2Model ----
(***************************************************************************)
(* Verification model of the TTS service (ihebkh25/TTS-Project).           *)
(*                                                                         *)
(* Each subsystem is modelled with its own specification:                  *)
(*   StreamSpec      server/src/main.rs   stream_ws (WebSocket streamer)   *)
(*   SynthCacheSpec  tts_core/src/lib.rs  get_or_create_synth              *)
(*   RespCacheSpec   tts_core/src/lib.rs  synthesize_with_cache            *)
(*   ChatSpec        server/src/main.rs   chat_endpoint, and               *)
(*                   llm_core/src/lib.rs  LlmClient::chat_with_history     *)
(*   ChunkSpec       tts_core/src/lib.rs  split_text_with_pauses           *)
(*   ValidateSpec    server/src/validation.rs  validate_tts_request        *)
(*   RegistrySpec    tts_core/src/lib.rs  new_from_mapfile, config_for     *)
(*   WavSpec         tts_core/src/wav.rs  encode_wav_base64                *)
(*   BatchSpec       tts_core/src/lib.rs  synthesize_with_pauses, and the  *)
(*                   server/src/main.rs   producer of stream_ws            *)
(*   ChatStreamSpec  llm_core/src/lib.rs  chat_with_history_stream         *)
(*   RetrySpec       llm_core/src/lib.rs  OpenAiClient::chat               *)
(* A specification leaves the variables of the other subsystems unchanged. *)
(***************************************************************************)
EXTENDS Integers, Sequences, FiniteSets, TLC

(***************************************************************************)
(* Program constants                                                       *)
(***************************************************************************)
hop_size == 256
n_mels == 80
ChannelCapacity == 100
\* response_cache_ttl, in seconds
response_cache_ttl == 3600

(***************************************************************************)
(* Bounds of the model                                                     *)
(***************************************************************************)
\* longest short script of the synthesizer iterator (number of sub-buffers)
MaxParts == 2
\* number of one-sample sub-buffers that follow the first one in the long script
LongTail == 101
\* max_cache_size of the TtsManager under test (new_with_cache_size; default 15)
max_cache_size == 2
\* calls of get_or_create_synth, over all threads
MaxCalls == 4
\* capacity of the response cache under test (LruCache::new(500) in TtsManager::new)
response_cache_capacity == 2
\* voices per language of the map files under test
MaxVoices == 2
\* samples of a slice that is written out
MaxSamples == 2
\* width in bits of the response cache key under test (u64 in cache_key)
KeyBits == 2
\* calls of synthesize_with_cache, over all request slots
MaxRequests == 3
\* turns of the longest conversation a chat request finds
MaxTurns == 6
\* chat requests, over all request slots
MaxChatCalls == 2
\* chars of the longest generated text given to split_text_with_pauses
MaxTextLen == 4
\* chars of the longest generated language code given to validate_tts_request
MaxLangLen == 5
\* samples Piper is taken to yield for each char it speaks
SamplesPerChar == 2
\* tokens of the longest stream of the provider
MaxStreamTokens == 2
\* the largest max_retries of an OpenAiClient
MaxRetries == 3

\* sizes of the sub-buffers of a short script: 100 < hop_size/2, 156 >= hop_size/2,
\* 100 + 156 = hop_size, 300 = hop_size + 44
PartSizes == {100, 156, 300}

VARIABLES
    \* ---- stream_ws ----
    script,             \* what the synthesizer does for this request (input)
    valid,              \* validate_tts_request(text, lang) is Ok (input)
    cfgOk,              \* config_for(lang) is Ok (input)
    hpc,                \* position of the connection handler (async block)
    ppc,                \* position of synthesis_task (spawn_blocking closure)
    pidx,               \* number of iterator items the producer has consumed
    chan,               \* the mpsc channel: items sent and not yet received
    txDropped,          \* tx dropped: the producer closure has returned
    rxDropped,          \* rx dropped: the handler's async block has returned
    socketOpen,         \* the WebSocket accepts sends
    clientClosed,       \* the client has closed the socket
    sent,               \* messages the socket accepted, in order
    sample_buffer,
    total_samples,
    offset,
    chunk_number,
    metadata_sent,
    synthesis_error,
    synthesis_complete,
    cur_chunk,          \* `chunk` drained from sample_buffer, about to be sent
    nSentItems,         \* items blocking_send accepted
    nRecvItems,         \* items rx.recv() returned
    sendFailed,         \* a chunk send returned Err
    \* ---- TtsManager::get_or_create_synth ----
    cache,              \* self.cache: config path -> CachedSynth
    strong,             \* strong count of each Arc<RwLock<PiperSpeechSynthesizer>>
    clock,              \* the last value Instant::now() returned
    tpc,                \* position of each calling thread
    tpath,              \* cfg_path_str of the thread's call
    tnew,               \* `cached`, the entry the thread built on a miss
    oldest_key,
    oldest_time,
    held,               \* the Arc the call returned, until the caller drops it
    calls,              \* calls made so far, over all threads
    tresult,            \* per thread: what its last call returned (Ok, Err)
    \* ---- TtsManager::synthesize_with_cache ----
    response_cache,     \* self.response_cache: LruCache<u64, CachedResponse>, LRU first
    now,                \* seconds on the Instant clock
    rpc,                \* position of each request
    rtuple,             \* (text, lang_opt, voice_opt) of the request
    rresult,            \* (audio_base64, sample_rate, duration_ms) of the blocking task
    rbegun,             \* number of calls that had returned when the request began
    rstart,             \* the time the request began
    rcalls,             \* calls made so far, over all request slots
    returns,            \* the Ok results returned so far, in order
    \* ---- chat_endpoint and LlmClient::chat_with_history ----
    conversations,      \* self.conversations: HashMap<String, Conversation>
    llm_lock,           \* the request whose task holds state.llm (0: unlocked)
    cpc,                \* position of each chat request
    creq,               \* ChatRequest {message, conversation_id} of the request
    conv_id,            \* conv_id of the request's spawn_blocking closure
    compact_messages,   \* the messages the request passes to provider.chat (<<>>: no call yet)
    reply,              \* what provider.chat returned to the request
    timed_out,          \* tokio::time::timeout has expired for the request
    chatLog,            \* the chat_with_history calls that have returned, in order
    chatCalls,          \* chat requests made so far, over all request slots
    \* ---- TtsManager::split_text_with_pauses ----
    text,               \* the argument, as its chars
    chunks,             \* the Vec<String> returned
    \* ---- validate_tts_request ----
    vtext,              \* the text argument: how many chars of each UTF-8 width
    vlang,              \* the language argument
    vresult,            \* the Result returned
    \* ---- TtsManager registry ----
    mapfile,            \* the JSON object of the map file, by language key
    manager,            \* the maps of the TtsManager that new_from_mapfile built
    cfg_call,           \* the last config_for call: arguments and result
    \* ---- encode_wav_base64 ----
    wav_in,             \* the arguments: the slice of samples and the sample rate
    wav_out,            \* the Result returned, or the panic
    \* ---- synthesize_with_pauses and the streaming producer ----
    batch_in,           \* the text, the sample rate of the voice, whether Piper fails
    batch_out,          \* the Result of synthesize_with_pauses
    stream_out,         \* the items the producer of stream_ws puts on the channel
    \* ---- LlmClient: storage ----
    storage_conv,       \* per request: the clone of the conversation taken for storage
    stored,             \* the conversations handed to storage.store_conversation
    \* ---- LlmClient::chat_with_history_stream ----
    token_stream,       \* per call: what the stream of the provider yields
    taken,              \* per call: how many tokens were taken from it
    full_response,      \* per call: the String full_response
    yielded,            \* per call: the items the returned stream has yielded
    \* ---- OpenAiClient::chat ----
    max_retries,        \* self.max_retries
    attempt,            \* the loop variable
    requests,           \* how each req.send() so far has ended
    last_err,           \* the Option last_err
    opc,                \* where the call stands
    oresult             \* the Result returned

streamVars == <<script, valid, cfgOk, hpc, ppc, pidx, chan, txDropped, rxDropped,
                socketOpen, clientClosed, sent, sample_buffer, total_samples, offset,
                chunk_number, metadata_sent, synthesis_error, synthesis_complete,
                cur_chunk, nSentItems, nRecvItems, sendFailed>>

synthVars == <<cache, strong, clock, tpc, tpath, tnew, oldest_key, oldest_time, held, calls,
               tresult>>

respVars == <<response_cache, now, rpc, rtuple, rresult, rbegun, rstart, rcalls, returns>>

chatVars == <<conversations, llm_lock, cpc, creq, conv_id, compact_messages, reply,
              timed_out, chatLog, chatCalls>>

\* the variables of the specifications of pure functions
registryVars == <<mapfile, manager, cfg_call>>

wavVars == <<wav_in, wav_out>>

batchVars == <<batch_in, batch_out, stream_out>>

pureVars == <<text, chunks, vtext, vlang, vresult, registryVars, wavVars, batchVars>>

\* the variables of the LLM client beside the chat endpoint
storageVars == <<storage_conv, stored>>

tokenVars == <<token_stream, taken, full_response, yielded>>

retryVars == <<max_retries, attempt, requests, last_err, opc, oresult>>

llmVars == <<storageVars, tokenVars, retryVars>>

fnVars == <<pureVars, llmVars>>

vars == <<streamVars, synthVars, respVars, chatVars, fnVars>>

(***************************************************************************)
(* Helpers                                                                 *)
(***************************************************************************)
RECURSIVE SumSeq(_)
SumSeq(s) ==
    IF s = <<>> THEN 0
    ELSE IF Len(s) = 1 THEN s[1]
    ELSE LET half == Len(s) \div 2
         IN  SumSeq(SubSeq(s, 1, half)) + SumSeq(SubSeq(s, half + 1, Len(s)))

RECURSIVE Flatten(_)
Flatten(ss) == IF ss = <<>> THEN <<>> ELSE Head(ss) \o Flatten(Tail(ss))

Last(s) == s[Len(s)]

\* Option<T>: a sequence of at most one value
None == <<>>

Some(x) == <<x>>

IsPrefix(s, t) == Len(s) <= Len(t) /\ SubSeq(t, 1, Len(s)) = s

SeqsUpTo(S, n) == UNION {[1..k -> S] : k \in 0..n}

(***************************************************************************)
(* The synthesizer's behaviour for one request.                            *)
(*   parts  lengths of the sub-buffers synth.synthesize_parallel yields    *)
(*   fail   "none"  : the iterator ends after the parts                    *)
(*          "chunk" : the iterator yields an Err after the parts           *)
(*          "synth" : synthesize_parallel itself returns Err               *)
(*          "load"  : get_or_create_synth returns Err                      *)
(***************************************************************************)
LongScript == [i \in 1..(LongTail + 1) |-> IF i = 1 THEN hop_size ELSE 1]

Scripts ==
    {[parts |-> p, fail |-> f] : p \in SeqsUpTo(PartSizes, MaxParts), f \in {"none", "chunk"}}
    \cup {[parts |-> <<>>, fail |-> f] : f \in {"synth", "load"}}
    \cup {[parts |-> LongScript, fail |-> "none"]}

\* the samples of the k-th sub-buffer: samples are numbered 1, 2, 3, ... in the
\* order the synthesizer produces them (0 is the padding value 0.0)
PartSamples(parts, k) ==
    LET base == SumSeq(SubSeq(parts, 1, k - 1))
    IN  [i \in 1..parts[k] |-> base + i]

\* everything the producer has taken from the iterator so far, concatenated:
\* the sub-buffers 1..pidx in order, that is the samples 1, 2, ..., n
Produced == [i \in 1..SumSeq(SubSeq(script.parts, 1, pidx)) |-> i]

(***************************************************************************)
(* Messages (serde_json::json! objects sent as Message::Text)              *)
(***************************************************************************)
NoMsg == [type |-> "none", status |-> "", code |-> 0, audio |-> <<>>, mel |-> <<>>,
          chunk |-> 0, offset |-> 0, progress |-> 0, total_samples |-> 0,
          total_chunks |-> 0]

StatusMsg(s) == [NoMsg EXCEPT !.type = "status", !.status = s]

ErrorMsg(c) == [NoMsg EXCEPT !.type = "error", !.code = c]

MetadataMsg(ts, tc) ==
    [NoMsg EXCEPT !.type = "metadata", !.total_samples = ts, !.total_chunks = tc]

\* mel_frame: the flat output of mel.add for the hop, or vec![0.0; n_mels] while
\* the STFT has no frame yet; the values are not modelled, every one is 0
mel_frame(chunk) == [i \in 1..n_mels |-> 0]

\* progress in whole percent, rounded down:
\* ((offset / total_samples) * 100 * 0.95).min(95.0), or 0 when nothing is ahead
Progress(off, total) ==
    IF total > off
    THEN LET p == (off * 95) \div total IN IF p < 95 THEN p ELSE 95
    ELSE 0

ChunkMsg(audio, n, tc, off, progress) ==
    [NoMsg EXCEPT !.type = "chunk", !.audio = audio, !.mel = mel_frame(audio),
                  !.chunk = n, !.total_chunks = tc, !.offset = off,
                  !.progress = progress]

\* socket.send(msg).await: Ok iff the socket is open
SocketSend(m) == sent' = IF socketOpen THEN Append(sent, m) ELSE sent

(***************************************************************************)
(* The bridge channel mpsc::channel::<Result<Vec<f32>, String>>(100)       *)
(***************************************************************************)
OkItem(samples) == [ok |-> TRUE, samples |-> samples]
ErrItem == [ok |-> FALSE, samples |-> <<>>]

\* blocking_send returns at once when there is room, otherwise it blocks
ChannelHasRoom_Unbounded(ch) == TRUE
ChannelHasRoom(ch) == Len(ch) < ChannelCapacity

\* blocking_send: Err when the receiver is gone, else the item is queued
BlockingSend(item) ==
    /\ rxDropped \/ ChannelHasRoom(chan)
    /\ IF rxDropped
       THEN UNCHANGED <<chan, nSentItems>>
       ELSE /\ chan' = Append(chan, item)
            /\ nSentItems' = nSentItems + 1

\* rx.recv(): the oldest item
RecvItem_Newest(ch) == ch[Len(ch)]
RecvItem(ch) == Head(ch)

RecvRest(ch) == Tail(ch)

(***************************************************************************)
(* The synthesizer cache: TtsManager::get_or_create_synth (lib.rs 279-329) *)
(***************************************************************************)
Paths == {"a.json", "b.json", "c.json", "d.json"}

Threads == {1, 2}

NoKey == "none"

NoEntry == [synth |-> 0, last_accessed |-> 0]

\* Arc::clone: one more strong reference
ArcClone_NoCount(s, h) == s
ArcClone(s, h) == [s EXCEPT ![h] = @ + 1]

\* dropping an Arc: one strong reference less; at zero the synthesizer is freed
ArcDrop(s, h) == [s EXCEPT ![h] = @ - 1]

Freed == {h \in DOMAIN strong : strong[h] = 0}

\* Arc::new: a synthesizer nobody else refers to
NewHandle == Cardinality(DOMAIN strong) + 1

\* the eviction scan (308-319): the entry with the smallest last_accessed below
\* the running minimum, which starts at oldest_time
OldestKey_Newest(c, bound) ==
    LET cand == {k \in DOMAIN c : c[k].last_accessed < bound}
    IN  IF cand = {} THEN NoKey
        ELSE CHOOSE k \in cand : \A j \in cand : c[k].last_accessed >= c[j].last_accessed
OldestKey(c, bound) ==
    LET cand == {k \in DOMAIN c : c[k].last_accessed < bound}
    IN  IF cand = {} THEN NoKey
        ELSE CHOOSE k \in cand : \A j \in cand : c[k].last_accessed <= c[j].last_accessed

\* DashMap::remove
MapRemove(c, k) == [j \in DOMAIN c \ {k} |-> c[j]]

\* DashMap::insert
MapInsert_KeepFirst(c, k, v) == [j \in DOMAIN c \cup {k} |-> IF j \in DOMAIN c THEN c[j] ELSE v]
MapInsert(c, k, v) == [j \in DOMAIN c \cup {k} |-> IF j = k THEN v ELSE c[j]]

\* TtsManager::new: an empty cache
SynthInit ==
    /\ cache = <<>>
    /\ strong = <<>>
    /\ clock = 0
    /\ tpc = [t \in Threads |-> "idle"]
    /\ tpath = [t \in Threads |-> NoKey]
    /\ tnew = [t \in Threads |-> NoEntry]
    /\ oldest_key = [t \in Threads |-> NoKey]
    /\ oldest_time = [t \in Threads |-> 0]
    /\ held = [t \in Threads |-> 0]
    /\ calls = 0
    /\ tresult = [t \in Threads |-> "none"]

\* the cache lookup (286-289): on a hit last_accessed is refreshed and a clone of
\* the Arc returned
T_Call(t, p) ==
    /\ tpc[t] = "idle"
    /\ calls < MaxCalls
    /\ calls' = calls + 1
    /\ tpath' = [tpath EXCEPT ![t] = p]
    /\ IF p \in DOMAIN cache
       THEN /\ clock' = clock + 1
            /\ cache' = [cache EXCEPT ![p].last_accessed = clock + 1]
            /\ strong' = ArcClone(strong, cache[p].synth)
            /\ held' = [held EXCEPT ![t] = cache[p].synth]
            /\ tpc' = [tpc EXCEPT ![t] = "holding"]
            /\ tresult' = [tresult EXCEPT ![t] = "Ok"]
       ELSE /\ tpc' = [tpc EXCEPT ![t] = "load"]
            /\ tresult' = [tresult EXCEPT ![t] = "none"]
            /\ UNCHANGED <<clock, cache, strong, held>>
    /\ UNCHANGED <<tnew, oldest_key, oldest_time, streamVars, respVars, chatVars, fnVars>>

\* read_sample_rate, from_config_path, PiperSpeechSynthesizer::new succeed;
\* synth_arc and its clone in `cached` (292-303)
T_LoadOk(t) ==
    /\ tpc[t] = "load"
    /\ clock' = clock + 1
    /\ strong' = [h \in DOMAIN strong \cup {NewHandle} |->
                     IF h = NewHandle THEN 2 ELSE strong[h]]
    /\ tnew' = [tnew EXCEPT ![t] = [synth |-> NewHandle, last_accessed |-> clock + 1]]
    /\ tpc' = [tpc EXCEPT ![t] = "check_len"]
    /\ UNCHANGED <<cache, tpath, oldest_key, oldest_time, held, calls, tresult,
                   streamVars, respVars, chatVars, fnVars>>

\* one of them fails: `?` returns the error (292-295)
T_LoadErr_AfterEviction(t) ==
    /\ tpc[t] = "load"
    /\ tpc' = [tpc EXCEPT ![t] = "idle"]
    /\ tresult' = [tresult EXCEPT ![t] = "Err"]
    /\ cache' = IF Cardinality(DOMAIN cache) >= max_cache_size
                THEN MapRemove(cache, OldestKey(cache, clock + 1))
                ELSE cache
    /\ UNCHANGED <<strong, clock, tpath, tnew, oldest_key, oldest_time, held, calls,
                   streamVars, respVars, chatVars, fnVars>>
T_LoadErr(t) ==
    /\ tpc[t] = "load"
    /\ tpc' = [tpc EXCEPT ![t] = "idle"]
    /\ tresult' = [tresult EXCEPT ![t] = "Err"]
    /\ UNCHANGED <<cache, strong, clock, tpath, tnew, oldest_key, oldest_time, held, calls,
                   streamVars, respVars, chatVars, fnVars>>

\* if self.cache.len() >= self.max_cache_size (306-309)
T_CheckLen(t) ==
    /\ tpc[t] = "check_len"
    /\ IF Cardinality(DOMAIN cache) >= max_cache_size
       THEN /\ clock' = clock + 1
            /\ oldest_time' = [oldest_time EXCEPT ![t] = clock + 1]
            /\ oldest_key' = [oldest_key EXCEPT ![t] = NoKey]
            /\ tpc' = [tpc EXCEPT ![t] = "scan"]
       ELSE /\ tpc' = [tpc EXCEPT ![t] = "insert"]
            /\ UNCHANGED <<clock, oldest_time, oldest_key>>
    /\ UNCHANGED <<cache, strong, tpath, tnew, held, calls, tresult,
                   streamVars, respVars, chatVars, fnVars>>

\* for entry in self.cache.iter() (312-319)
T_Scan(t) ==
    /\ tpc[t] = "scan"
    /\ oldest_key' = [oldest_key EXCEPT ![t] = OldestKey(cache, oldest_time[t])]
    /\ tpc' = [tpc EXCEPT ![t] = "remove"]
    /\ UNCHANGED <<cache, strong, clock, tpath, tnew, oldest_time, held, calls, tresult,
                   streamVars, respVars, chatVars, fnVars>>

\* if let Some(key) = oldest_key { self.cache.remove(&key) } (321-323): the
\* removed CachedSynth is dropped, and with it the cache's Arc
T_Remove(t) ==
    /\ tpc[t] = "remove"
    /\ IF oldest_key[t] \in DOMAIN cache
       THEN /\ cache' = MapRemove(cache, oldest_key[t])
            /\ strong' = ArcDrop(strong, cache[oldest_key[t]].synth)
       ELSE UNCHANGED <<cache, strong>>
    /\ tpc' = [tpc EXCEPT ![t] = "insert"]
    /\ UNCHANGED <<clock, tpath, tnew, oldest_key, oldest_time, held, calls, tresult,
                   streamVars, respVars, chatVars, fnVars>>

\* self.cache.insert(cfg_path_str, cached); Ok((synth_arc, sample_rate))
\* (326-328): an entry already under the key is replaced and dropped
T_Insert(t) ==
    /\ tpc[t] = "insert"
    /\ cache' = MapInsert(cache, tpath[t], tnew[t])
    /\ strong' = IF tpath[t] \in DOMAIN cache
                 THEN ArcDrop(strong, cache[tpath[t]].synth)
                 ELSE strong
    /\ held' = [held EXCEPT ![t] = tnew[t].synth]
    /\ tnew' = [tnew EXCEPT ![t] = NoEntry]
    /\ tpc' = [tpc EXCEPT ![t] = "holding"]
    /\ tresult' = [tresult EXCEPT ![t] = "Ok"]
    /\ UNCHANGED <<clock, tpath, oldest_key, oldest_time, calls, streamVars, respVars, chatVars, fnVars>>

\* the caller is done with the synthesizer and drops its Arc
T_Drop(t) ==
    /\ tpc[t] = "holding"
    /\ strong' = ArcDrop(strong, held[t])
    /\ held' = [held EXCEPT ![t] = 0]
    /\ tpc' = [tpc EXCEPT ![t] = "idle"]
    /\ UNCHANGED <<cache, clock, tpath, tnew, oldest_key, oldest_time, calls, tresult,
                   streamVars, respVars, chatVars, fnVars>>

(***************************************************************************)
(* The response cache: TtsManager::synthesize_with_cache (lib.rs 585-668)  *)
(***************************************************************************)
\* texts, languages and voices are numbered; 0 is None
Tuples == [text : {1, 2}, lang : {0, 1}, voice : {0}]
              \cup {[text |-> 3, lang |-> 0, voice |-> 0]}

\* the tuples whose synthesis fails (config_for or the synthesizer returns Err)
FailingTuples == {[text |-> 2, lang |-> 1, voice |-> 0]}

Slots == {1, 2}

\* the instants at which something happens, in seconds: just before and at the
\* TTL after 0, and just before the TTL after that
Times == {0, 3599, 3600, 7199}

\* cache_key (360-366): text, lang_opt and voice_opt are fed to one hasher and
\* the state is folded into a key of fixed width
cache_key(tu) == (31 * tu.text + 7 * tu.lang + tu.voice) % (2 ^ KeyBits)

\* what the blocking task computes for a tuple (621-649): the encoded audio, the
\* model's sample rate and the duration
Render(tu) ==
    [audio_base64 |-> <<"wav", tu.text, tu.lang, tu.voice>>,
     sample_rate |-> IF tu.lang = 1 THEN 16000 ELSE 22050,
     duration_ms |-> 1000 * tu.text]

NoTuple == [text |-> 0, lang |-> 0, voice |-> 0]

NoResult == [audio_base64 |-> <<>>, sample_rate |-> 0, duration_ms |-> 0]

\* LruCache::peek: the entry under the key, without touching the order
HasKey(c, k) == \E i \in 1..Len(c) : c[i].key = k

Peek(c, k) == c[CHOOSE i \in 1..Len(c) : c[i].key = k]

\* LruCache::put: the entry becomes the most recently used one; a new key at
\* capacity evicts the least recently used entry
LruPut_EvictNewest(c, e) ==
    LET others == SelectSeq(c, LAMBDA x : x.key # e.key)
    IN  IF HasKey(c, e.key) \/ Len(c) < response_cache_capacity
        THEN Append(others, e)
        ELSE Append(SubSeq(others, 1, Len(others) - 1), e)
LruPut(c, e) ==
    LET others == SelectSeq(c, LAMBDA x : x.key # e.key)
    IN  IF HasKey(c, e.key) \/ Len(c) < response_cache_capacity
        THEN Append(others, e)
        ELSE Append(Tail(others), e)

\* the validity check of a cached entry (597)
Fresh_Inclusive(e, t) == t - e.cached_at <= response_cache_ttl
Fresh(e, t) == t - e.cached_at < response_cache_ttl

RespInit ==
    /\ response_cache = <<>>
    /\ now = 0
    /\ rpc = [r \in Slots |-> "idle"]
    /\ rtuple = [r \in Slots |-> NoTuple]
    /\ rresult = [r \in Slots |-> NoResult]
    /\ rbegun = [r \in Slots |-> 0]
    /\ rstart = [r \in Slots |-> 0]
    /\ rcalls = 0
    /\ returns = <<>>

\* an Ok((audio_base64, sample_rate, duration_ms, hit)) handed to the caller;
\* stored_for is the tuple the returned bytes were rendered for
Returned(tu, res, hit, stored_for, begun, start) ==
    [tuple |-> tu, result |-> res, hit |-> hit, stored_for |-> stored_for,
     begun |-> begun, start |-> start, at |-> now]

\* the lookup under the read lock (592-606); a call runs in the first free slot
R_Lookup(r, tu) ==
    /\ rpc[r] = "idle"
    /\ \A q \in Slots : q < r => rpc[q] # "idle"
    /\ rcalls < MaxRequests
    /\ rcalls' = rcalls + 1
    /\ IF HasKey(response_cache, cache_key(tu)) /\ Fresh(Peek(response_cache, cache_key(tu)), now)
       THEN /\ returns' = Append(returns,
                   LET e == Peek(response_cache, cache_key(tu))
                   IN  Returned(tu, [audio_base64 |-> e.audio_base64,
                                     sample_rate |-> e.sample_rate,
                                     duration_ms |-> e.duration_ms],
                                TRUE, e.stored_for, Len(returns), now))
            /\ UNCHANGED <<rpc, rtuple, rbegun, rstart>>
       ELSE /\ rpc' = [rpc EXCEPT ![r] = "synth"]
            /\ rtuple' = [rtuple EXCEPT ![r] = tu]
            /\ rbegun' = [rbegun EXCEPT ![r] = Len(returns)]
            /\ rstart' = [rstart EXCEPT ![r] = now]
            /\ UNCHANGED returns
    /\ UNCHANGED <<response_cache, now, rresult, streamVars, synthVars, chatVars, fnVars>>

\* the blocking task returns Ok (621-652)
R_SynthOk(r) ==
    /\ rpc[r] = "synth"
    /\ rtuple[r] \notin FailingTuples
    /\ rresult' = [rresult EXCEPT ![r] = Render(rtuple[r])]
    /\ rpc' = [rpc EXCEPT ![r] = "put"]
    /\ UNCHANGED <<response_cache, now, rtuple, rbegun, rstart, rcalls, returns,
                   streamVars, synthVars, chatVars, fnVars>>

\* the blocking task returns Err: `?` returns it, nothing is cached (650-652)
R_SynthErr(r) ==
    /\ rpc[r] = "synth"
    /\ rtuple[r] \in FailingTuples
    /\ rpc' = [rpc EXCEPT ![r] = "idle"]
    /\ UNCHANGED <<response_cache, now, rtuple, rresult, rbegun, rstart, rcalls,
                   returns, streamVars, synthVars, chatVars, fnVars>>

\* cache.put(cache_key, cached_response) under the write lock, then Ok (655-667)
R_Put(r) ==
    /\ rpc[r] = "put"
    /\ response_cache' = LruPut(response_cache,
           [key |-> cache_key(rtuple[r]),
            audio_base64 |-> rresult[r].audio_base64,
            sample_rate |-> rresult[r].sample_rate,
            duration_ms |-> rresult[r].duration_ms,
            cached_at |-> now,
            stored_for |-> rtuple[r]])
    /\ returns' = Append(returns,
           Returned(rtuple[r], rresult[r], FALSE, rtuple[r], rbegun[r], rstart[r]))
    /\ rpc' = [rpc EXCEPT ![r] = "idle"]
    /\ UNCHANGED <<now, rtuple, rresult, rbegun, rstart, rcalls, streamVars, synthVars, chatVars, fnVars>>

\* time passes
Tick(t) ==
    /\ t > now
    /\ now' = t
    /\ UNCHANGED <<response_cache, rpc, rtuple, rresult, rbegun, rstart, rcalls, returns,
                   streamVars, synthVars, chatVars, fnVars>>

(***************************************************************************)
(* The chat path: chat_endpoint (server/src/main.rs 361-448) and           *)
(* LlmClient::chat_with_history (llm_core/src/lib.rs 611-680).             *)
(* A text is named by a number: requests carry the texts of ChatMessages,  *)
(* the provider answers with a text of Replies.                            *)
(***************************************************************************)
ChatSlots == {1, 2}

ChatMessages == {1, 2}

Replies == {11}

\* conversation ids a client sends without having received them from the server
ClientIds == {1}

\* conversation_id: None
NoId == 0

\* a conversation_id that is no UUID: "invalid-uuid"
MalformedIds == {-1}

\* validate_conversation_id: the id must parse as a UUID
validate_conversation_id(id) == id \notin MalformedIds

\* every conversation_id a request can carry: none, a client's own, or one that
\* Uuid_new_v4 has produced
RequestIds ==
    {NoId} \cup ClientIds \cup MalformedIds
           \cup 2..(1 + MaxChatCalls) \cup 101..(100 + MaxChatCalls)

NoReply == 0

\* struct Message {role, content, timestamp}; nothing reads the timestamp
Message(role, content) == [role |-> role, content |-> content]

\* a conversation after n completed turns
Turns(n) ==
    [i \in 1..(2 * n) |->
        IF i % 2 = 1 THEN Message("user", 100 + i) ELSE Message("assistant", 100 + i)]

\* the conversation tables a chat request can find: none yet, one conversation
\* of MaxTurns - 1 or MaxTurns turns, or 100 conversations of one turn each
ConversationSeeds ==
    {<<>>} \cup {(1 :> Turns(n)) : n \in (MaxTurns - 1)..MaxTurns}
           \cup {[i \in 1..100 |-> Turns(1)]}

saturating_sub(a, b) == IF a > b THEN a - b ELSE 0

tail_FromFront(all, n) == SubSeq(all, 1, IF Len(all) < n THEN Len(all) ELSE n)
tail(all, n) ==
    LET len == Len(all)
        start == saturating_sub(len, n)
    IN  SubSeq(all, start + 1, len)

\* convs.entry(conv_id).or_insert_with(..) followed by convo.messages.push(m)
PushMessage_Fresh(convs, id, m) ==
    [k \in DOMAIN convs \cup {id} |-> IF k = id THEN <<m>> ELSE convs[k]]
PushMessage(convs, id, m) ==
    IF id \in DOMAIN convs
    THEN [convs EXCEPT ![id] = Append(@, m)]
    ELSE [k \in DOMAIN convs \cup {id} |-> IF k = id THEN <<m>> ELSE convs[k]]

\* Uuid::new_v4(): an id no conversation and no request has
Uuid_new_v4 ==
    LET used == DOMAIN conversations \cup ClientIds \cup {conv_id[r] : r \in ChatSlots}
    IN  1 + CHOOSE m \in used : \A k \in used : k <= m

ChatInit ==
    /\ conversations \in ConversationSeeds
    /\ llm_lock = 0
    /\ cpc = [r \in ChatSlots |-> "idle"]
    /\ creq = [r \in ChatSlots |-> [conversation_id |-> NoId, message |-> 0]]
    /\ conv_id = [r \in ChatSlots |-> NoId]
    /\ compact_messages = [r \in ChatSlots |-> <<>>]
    /\ reply = [r \in ChatSlots |-> NoReply]
    /\ timed_out = [r \in ChatSlots |-> FALSE]
    /\ chatLog = <<>>
    /\ chatCalls = 0

\* no chat request is made
ChatIdle ==
    /\ ChatInit
    /\ conversations = <<>>

\* the conversation ids the server has returned in a response
ReturnedIds == {chatLog[i].conv_id : i \in {j \in 1..Len(chatLog) : chatLog[j].response = "ok"}}

\* chat_endpoint up to spawn_blocking (main.rs 361-384): the request has passed
\* validate_chat_request and validate_conversation_id
Chat_Request_Unvalidated(r, id, m) ==
    /\ cpc[r] = "idle"
    /\ chatCalls < MaxChatCalls
    /\ id \in {NoId} \cup ClientIds \cup ReturnedIds \cup MalformedIds
    /\ creq' = [creq EXCEPT ![r] = [conversation_id |-> id, message |-> m]]
    /\ cpc' = [cpc EXCEPT ![r] = "spawned"]
    /\ timed_out' = [timed_out EXCEPT ![r] = FALSE]
    /\ compact_messages' = [compact_messages EXCEPT ![r] = <<>>]
    /\ reply' = [reply EXCEPT ![r] = NoReply]
    /\ chatCalls' = chatCalls + 1
    /\ UNCHANGED <<conversations, llm_lock, conv_id, chatLog,
                   streamVars, synthVars, respVars, fnVars>>
Chat_Request(r, id, m) ==
    /\ cpc[r] = "idle"
    /\ chatCalls < MaxChatCalls
    /\ id \in {NoId} \cup ClientIds \cup ReturnedIds \cup MalformedIds
    /\ id # NoId => validate_conversation_id(id)
    /\ creq' = [creq EXCEPT ![r] = [conversation_id |-> id, message |-> m]]
    /\ cpc' = [cpc EXCEPT ![r] = "spawned"]
    /\ timed_out' = [timed_out EXCEPT ![r] = FALSE]
    /\ compact_messages' = [compact_messages EXCEPT ![r] = <<>>]
    /\ reply' = [reply EXCEPT ![r] = NoReply]
    /\ chatCalls' = chatCalls + 1
    /\ UNCHANGED <<conversations, llm_lock, conv_id, chatLog,
                   streamVars, synthVars, respVars, fnVars>>

\* chat_endpoint when validate_conversation_id fails (main.rs 369-371): the ?
\* returns ApiError::InvalidInput, status 400, before spawn_blocking
Rejected_chat(id, m) ==
    [conversation_id |-> id,
     message         |-> m,
     conv_id         |-> NoId,
     window          |-> <<>>,
     reply           |-> NoReply,
     response        |-> "invalid_input"]

Chat_Invalid(r, id, m) ==
    /\ cpc[r] = "idle"
    /\ chatCalls < MaxChatCalls
    /\ id \in MalformedIds
    /\ ~validate_conversation_id(id)
    /\ chatLog' = Append(chatLog, Rejected_chat(id, m))
    /\ chatCalls' = chatCalls + 1
    /\ UNCHANGED <<conversations, llm_lock, cpc, creq, conv_id, compact_messages,
                   reply, timed_out, streamVars, synthVars, respVars, fnVars>>

\* the closure takes state.llm (main.rs 389) and fixes conv_id (main.rs 390)
LlmLockFree(l) == l = 0

Chat_Lock(r) ==
    /\ cpc[r] = "spawned"
    /\ LlmLockFree(llm_lock)
    /\ llm_lock' = r
    /\ conv_id' = [conv_id EXCEPT ![r] =
                      IF creq[r].conversation_id = NoId THEN Uuid_new_v4
                      ELSE creq[r].conversation_id]
    /\ cpc' = [cpc EXCEPT ![r] = "locked"]
    /\ UNCHANGED <<conversations, creq, compact_messages, reply, timed_out, chatLog,
                   chatCalls, streamVars, synthVars, respVars, fnVars>>

\* chat_with_history, the first block under self.conversations (lib.rs 615-642);
\* self.storage is Some: the conversation is cloned for the storage (635-639)
Chat_Prepare(r) ==
    /\ cpc[r] = "locked"
    /\ conversations' =
           PushMessage(conversations, conv_id[r], Message("user", creq[r].message))
    /\ compact_messages' =
           [compact_messages EXCEPT ![r] = tail(conversations'[conv_id[r]], 10)]
    /\ storage_conv' = [storage_conv EXCEPT ![r] = Some(conversations'[conv_id[r]])]
    /\ cpc' = [cpc EXCEPT ![r] = "calling"]
    /\ UNCHANGED <<llm_lock, creq, conv_id, reply, timed_out, chatLog, chatCalls, stored,
                   tokenVars, retryVars, streamVars, synthVars, respVars, pureVars>>

\* self.provider.chat(&compact_messages) returns Ok (lib.rs 645)
Chat_ProviderOk(r, rep) ==
    /\ cpc[r] = "calling"
    /\ reply' = [reply EXCEPT ![r] = rep]
    /\ cpc' = [cpc EXCEPT ![r] = "replied"]
    /\ UNCHANGED <<conversations, llm_lock, creq, conv_id, compact_messages, timed_out,
                   chatLog, chatCalls, streamVars, synthVars, respVars, fnVars>>

\* what chat_endpoint answers (main.rs 400-447)
Response(r, ok) ==
    IF timed_out[r] THEN "timeout" ELSE IF ok THEN "ok" ELSE "llm_error"

Returned_chat(r, ok) ==
    [conversation_id |-> creq[r].conversation_id,
     message         |-> creq[r].message,
     conv_id         |-> conv_id[r],
     window          |-> compact_messages[r],
     reply           |-> IF ok THEN reply[r] ELSE NoReply,
     response        |-> Response(r, ok)]

\* self.provider.chat returns Err: chat_with_history returns it (lib.rs 645), the
\* closure returns ApiError::LlmError and drops the guard of state.llm (main.rs 393)
Chat_ProviderErr_RollsBack(r) ==
    /\ cpc[r] = "calling"
    /\ conversations' =
           [conversations EXCEPT ![conv_id[r]] = SubSeq(@, 1, Len(@) - 1)]
    /\ chatLog' = Append(chatLog, Returned_chat(r, FALSE))
    /\ llm_lock' = 0
    /\ cpc' = [cpc EXCEPT ![r] = "idle"]
    /\ UNCHANGED <<creq, conv_id, compact_messages, reply, timed_out,
                   chatCalls, streamVars, synthVars, respVars, fnVars>>
Chat_ProviderErr(r) ==
    /\ cpc[r] = "calling"
    /\ chatLog' = Append(chatLog, Returned_chat(r, FALSE))
    /\ llm_lock' = 0
    /\ cpc' = [cpc EXCEPT ![r] = "idle"]
    /\ UNCHANGED <<conversations, creq, conv_id, compact_messages, reply, timed_out,
                   chatCalls, streamVars, synthVars, respVars, fnVars>>

\* the task spawned for the storage (lib.rs 661-678): the clone taken before the
\* provider call, with the assistant message pushed, is given to store_conversation
StoreConversation(log, id, clone, m) ==
    IF clone # None
    THEN Append(log, [id |-> id, messages |-> Append(clone[1], m)])
    ELSE log

\* the second block under self.conversations (lib.rs 648-658), the storage task
\* (661-678), Ok(reply) (679); the closure returns (reply, conv_id) and drops the
\* guard (main.rs 392)
Chat_Update(r) ==
    /\ cpc[r] = "replied"
    /\ conversations' =
           IF conv_id[r] \in DOMAIN conversations
           THEN PushMessage(conversations, conv_id[r], Message("assistant", reply[r]))
           ELSE conversations
    /\ stored' = StoreConversation(stored, conv_id[r], storage_conv[r],
                                    Message("assistant", reply[r]))
    /\ chatLog' = Append(chatLog, Returned_chat(r, TRUE))
    /\ llm_lock' = 0
    /\ cpc' = [cpc EXCEPT ![r] = "idle"]
    /\ UNCHANGED <<creq, conv_id, compact_messages, reply, timed_out, chatCalls,
                   storage_conv, tokenVars, retryVars, streamVars, synthVars, respVars, pureVars>>

\* tokio::time::timeout expires first (main.rs 382-383, 410-417): the endpoint
\* answers with the timeout error, the blocking task runs on
Chat_Timeout(r) ==
    /\ cpc[r] \in {"spawned", "locked", "calling", "replied"}
    /\ ~timed_out[r]
    /\ timed_out' = [timed_out EXCEPT ![r] = TRUE]
    /\ UNCHANGED <<conversations, llm_lock, cpc, creq, conv_id, compact_messages, reply,
                   chatLog, chatCalls, streamVars, synthVars, respVars, fnVars>>

(***************************************************************************)
(* TtsManager::split_text_with_pauses (tts_core/src/lib.rs 475-564).       *)
(* A String is the sequence of its chars; i counts from 0 as in the code.  *)
(***************************************************************************)
\* chars[i]
At(chars, i) == chars[i + 1]

\* char::is_whitespace, char::is_ascii_digit
is_whitespace(c) == c \in {" ", "\t", "\n", "\r"}

is_ascii_digit(c) == c \in {"0", "1", "2", "3", "4", "5", "6", "7", "8", "9"}

\* str::ends_with
ends_with(s, suffix) ==
    /\ Len(suffix) <= Len(s)
    /\ SubSeq(s, Len(s) - Len(suffix) + 1, Len(s)) = suffix

\* str::trim
RECURSIVE trim_start(_)
trim_start(s) == IF s # <<>> /\ is_whitespace(Head(s)) THEN trim_start(Tail(s)) ELSE s

RECURSIVE trim_end(_)
trim_end(s) ==
    IF s # <<>> /\ is_whitespace(s[Len(s)]) THEN trim_end(SubSeq(s, 1, Len(s) - 1)) ELSE s

trim(s) == trim_end(trim_start(s))

\* the suffixes tested at lib.rs 493-499
Abbreviations ==
    {<<"D", "r", ".">>, <<"M", "r", ".">>,
     <<"M", "r", "s", ".">>, <<"M", "s", ".">>,
     <<"P", "r", "o", "f", ".">>, <<"e", "t", "c", ".">>,
     <<"v", "s", ".">>, <<"e", ".", "g", ".">>,
     <<"i", ".", "e", ".">>, <<"a", ".", "m", ".">>,
     <<"p", ".", "m", ".">>, <<"I", "n", "c", ".">>,
     <<"L", "t", "d", ".">>, <<"C", "o", "r", "p", ".">>}

\* is_abbrev (lib.rs 489-502): context is chars[start..end]
is_abbrev(chars, i) ==
    IF i >= 2 /\ i + 1 < Len(chars) /\ At(chars, i + 1) # " "
    THEN LET start == saturating_sub(i, 3)
             end == IF i + 1 < Len(chars) THEN i + 1 ELSE Len(chars)
             context == SubSeq(chars, start + 1, end)
         IN  \E a \in Abbreviations : ends_with(context, a)
    ELSE FALSE

\* is_number_comma (lib.rs 518-525)
is_number_comma(chars, i) ==
    IF i > 0 /\ i + 1 < Len(chars)
    THEN LET prev_char == At(chars, i - 1)
             next_char == At(chars, i + 1)
         IN  \/ is_ascii_digit(prev_char) /\ is_ascii_digit(next_char)
             \/ is_whitespace(prev_char) /\ i > 1 /\ is_ascii_digit(At(chars, i - 2))
    ELSE FALSE

\* the match at lib.rs 485-548: chars[i] closes the current chunk
ClosesChunk(chars, i) ==
    LET c == At(chars, i)
    IN  CASE c \in {".", "!", "?"} -> ~is_abbrev(chars, i)
          [] c = ","               -> ~is_number_comma(chars, i)
          [] c \in {";", ":"}      -> TRUE
          [] OTHER                 -> FALSE

\* "Include following space if present" (lib.rs 506-509, 529-532, 540-543)
SpaceFollows(chars, i) == i + 1 < Len(chars) /\ At(chars, i + 1) = " "

WithSpace_Skipped(current_chunk, space) == current_chunk
WithSpace(current_chunk, space) ==
    IF space THEN Append(current_chunk, " ") ELSE current_chunk

\* the while loop (lib.rs 481-551) from index i on
RECURSIVE SplitLoop(_, _, _, _)
SplitLoop(chars, i, current_chunk, acc) ==
    IF i >= Len(chars)
    THEN [current_chunk |-> current_chunk, chunks |-> acc]
    ELSE LET pushed == Append(current_chunk, At(chars, i))
             space == SpaceFollows(chars, i)
         IN  IF ClosesChunk(chars, i)
             THEN SplitLoop(chars, IF space THEN i + 2 ELSE i + 1, <<>>,
                            Append(acc, WithSpace(pushed, space)))
             ELSE SplitLoop(chars, i + 1, pushed, acc)

split_text_with_pauses(t) ==
    LET done == SplitLoop(t, 0, <<>>, <<>>)
        all == IF trim(done.current_chunk) # <<>>
               THEN Append(done.chunks, done.current_chunk)
               ELSE done.chunks
    IN  IF all = <<>> THEN <<t>> ELSE all

\* the chars of the generated texts
Alphabet == {"a", "1", " ", ".", ",", ";"}

\* the examples of the specification
DrSmith == <<"D", "r", ".", " ", "S", "m", "i", "t", "h", " ", "s", "a", "i", "d", " ", "h", "i", ".">>

ThreeFourteen == <<"3", ",", "1", "4">>

OneThousand == <<"1", ",", "0", "0", "0">>

HelloWorld == <<"h", "e", "l", "l", "o", ",", " ", "w", "o", "r", "l", "d">>

\* every abbreviation, at the start or inside a text, followed by a space, by
\* another char or by nothing
AbbreviationTexts ==
    {pre \o a \o post : pre \in {<<>>, <<"a", " ">>}, a \in Abbreviations,
                        post \in {<<>>, <<" ", "S", ".">>, <<"S", ".">>, <<",", "S">>}}

Texts ==
    SeqsUpTo(Alphabet, MaxTextLen)
        \cup {DrSmith, ThreeFourteen, OneThousand, HelloWorld} \cup AbbreviationTexts

\* split_text_with_pauses has not been called
NoChunks == <<>>

SplitInit ==
    /\ text \in Texts
    /\ chunks = NoChunks

Split ==
    /\ chunks = NoChunks
    /\ chunks' = split_text_with_pauses(text)
    /\ UNCHANGED <<text, vtext, vlang, vresult, registryVars, wavVars, batchVars, llmVars,
                   streamVars, synthVars, respVars, chatVars>>

(***************************************************************************)
(* validate_tts_request (server/src/validation.rs 9-55).                   *)
(* The text is given by the number of its chars of each UTF-8 width (1 to  *)
(* 4 bytes); the language code is the sequence of its chars.               *)
(***************************************************************************)
MAX_TEXT_LENGTH == 5000

MIN_TEXT_LENGTH == 1

\* str::len: the length in bytes
ByteLen(t) == t[1] + 2 * t[2] + 3 * t[3] + 4 * t[4]

\* str::chars().count()
CharCount(t) == t[1] + t[2] + t[3] + t[4]

\* language: None
NoLang == <<"None">>

is_ascii_lowercase(c) ==
    c \in {"a", "b", "c", "d", "e", "f", "g", "h", "i", "j", "k", "l", "m", "n", "o", "p", "q", "r", "s", "t", "u", "v", "w", "x", "y", "z"}

is_ascii_uppercase(c) ==
    c \in {"A", "B", "C", "D", "E", "F", "G", "H", "I", "J", "K", "L", "M", "N", "O", "P", "Q", "R", "S", "T", "U", "V", "W", "X", "Y", "Z"}

\* str::split(sep).collect::<Vec<_>>()
RECURSIVE split(_, _, _)
split(s, sep, part) ==
    IF s = <<>> THEN <<part>>
    ELSE IF Head(s) = sep THEN <<part>> \o split(Tail(s), sep, <<>>)
    ELSE split(Tail(s), sep, Append(part, Head(s)))

\* str::len of a part: its length in bytes; "é" stands for a char of two bytes
Utf8Len(s) == SumSeq([i \in 1..Len(s) |-> IF s[i] = "é" THEN 2 ELSE 1])

is_valid_language_code_LenOnly(code) ==
    LET parts == split(code, "_", <<>>)
    IN  /\ Len(parts) \in {1, 2}
        /\ \A k \in 1..Len(parts) : Utf8Len(parts[k]) = 2
is_valid_language_code(code) ==
    LET parts == split(code, "_", <<>>)
    IN  CASE Len(parts) = 1 ->
                 /\ Utf8Len(parts[1]) = 2
                 /\ \A i \in 1..Len(parts[1]) : is_ascii_lowercase(parts[1][i])
          [] Len(parts) = 2 ->
                 /\ Utf8Len(parts[1]) = 2
                 /\ \A i \in 1..Len(parts[1]) : is_ascii_lowercase(parts[1][i])
                 /\ Utf8Len(parts[2]) = 2
                 /\ \A i \in 1..Len(parts[2]) : is_ascii_uppercase(parts[2][i])
          [] OTHER -> FALSE

\* ApiError::InvalidInput(msg), answered with 400 (error.rs 38)
InvalidInput(msg) == [variant |-> "InvalidInput", status |-> 400, msg |-> msg]

Ok == [variant |-> "Ok", status |-> 200, msg |-> ""]

\* validate_tts_request has not been called
NotValidated == [variant |-> "none", status |-> 0, msg |-> ""]

validate_tts_request(t, language) ==
    IF ByteLen(t) = 0 THEN InvalidInput("Text cannot be empty")
    ELSE IF ByteLen(t) > MAX_TEXT_LENGTH THEN InvalidInput("Text too long")
    ELSE IF ByteLen(t) < MIN_TEXT_LENGTH THEN InvalidInput("Text too short")
    ELSE IF language # NoLang /\ ~is_valid_language_code(language)
         THEN InvalidInput("Invalid language code format")
    ELSE Ok

\* how many chars of one width a text has
CharCounts == {0, 1, 2500, 2501, 4999, 5000, 5001}

ValidatedTexts == [1..4 -> CharCounts]

\* the chars of the generated language codes
LangAlphabet == {"e", "n", "U", "_", "-", "é"}

\* the language codes named by the specification and by the tests
NamedLanguageCodes ==
    {<<"e", "n">>, <<"E", "N">>, <<"e", "n", "_", "U", "S">>, <<"e", "n", "-", "U", "S">>,
     <<"e", "n", "g", "l", "i", "s", "h">>, <<"i", "n", "v", "a", "l", "i", "d", "_", "l", "a", "n", "g">>, <<"d", "e", "_", "D", "E">>, <<"i", "n", "v", "a", "l", "i", "d">>,
     <<"I", "N", "V", "A", "L", "I", "D">>, <<"e", "n", "_", "u", "s">>, <<"E", "N", "_", "U", "S">>, <<"e", "n", "_", "U", "S", "_", "x">>}

LanguageCodes == SeqsUpTo(LangAlphabet, MaxLangLen) \cup NamedLanguageCodes

\* a text of one ASCII char
OneChar == [w \in 1..4 |-> IF w = 1 THEN 1 ELSE 0]

\* every text with no language or with a named one, and every language code
\* with a text of one char
ValidateInit ==
    /\ \/ vtext \in ValidatedTexts /\ vlang \in {NoLang, <<"e", "n", "_", "U", "S">>, <<"E", "N">>}
       \/ vtext = OneChar /\ vlang \in LanguageCodes
    /\ vresult = NotValidated

Validate ==
    /\ vresult = NotValidated
    /\ vresult' = validate_tts_request(vtext, vlang)
    /\ UNCHANGED <<text, chunks, vtext, vlang, registryVars, wavVars, batchVars, llmVars,
                   streamVars, synthVars, respVars, chatVars>>

(***************************************************************************)
(* The voice registry of TtsManager (tts_core/src/lib.rs 108-246):         *)
(* new_from_mapfile builds the two maps from a map file, config_for reads  *)
(* them.  An Option is a sequence of at most one value.                    *)
(***************************************************************************)
unwrap_or(opt, dflt) == IF opt = None THEN dflt ELSE opt[1]

\* language keys that a map file under test can hold
MapLangs == {"de_DE", "en_US"}
VoiceNames == <<"thorsten", "kerstin", "ramona">>
VoiceIds == {VoiceNames[i] : i \in 1..MaxVoices}

\* struct VoiceEntry {config, speaker_id, ..}: the path names its voice, the
\* first voice has no speaker id
VoiceEntry(lang, v) ==
    [config |-> <<lang, v>>, speaker_id |-> IF v = VoiceNames[1] THEN None ELSE Some(1)]

\* one value of the JSON object of the map file, by its shape
JsonEntry(kind, config, speaker, default_voice, voices) ==
    [kind |-> kind, config |-> config, default_speaker |-> speaker,
     default_voice |-> default_voice, voices |-> voices]

\* the values a language key can have: none, "<path>", {config, default_speaker},
\* {default_voice?, voices}, and a value that is neither string nor object
JsonEntries(lang) ==
    {JsonEntry("absent", <<>>, None, None, <<>>),
     JsonEntry("string", <<lang, "legacy">>, None, None, <<>>),
     JsonEntry("object", <<lang, "legacy">>, Some(0), None, <<>>),
     JsonEntry("number", <<>>, None, None, <<>>)}
    \cup {JsonEntry("rich", <<>>, None, dv, [v \in vs |-> VoiceEntry(lang, v)]) :
             dv \in {None} \cup {Some(v) : v \in VoiceIds}, vs \in SUBSET VoiceIds}

MapFiles == {f \in [MapLangs -> UNION {JsonEntries(l) : l \in MapLangs}] :
                \A l \in MapLangs : f[l] \in JsonEntries(l)}

NotLoaded == [state |-> "none", map |-> <<>>, voices_map |-> <<>>]
LoadError == [state |-> "failed", map |-> <<>>, voices_map |-> <<>>]

\* the entry has the "voices" key (lib.rs 123-124)
IsRich(e) == e.kind = "rich"

\* the ? of 'default_voice' (129-133) and the invalid entry (181-186)
EntryFails(e) == (IsRich(e) /\ e.default_voice = None) \/ e.kind = "number"

\* map.insert: of a rich entry when a voice is the default voice (156-159), of
\* a legacy entry always (170-180)
LegacyOf(e) ==
    IF IsRich(e)
      THEN LET dv == e.default_voice[1]
           IN  IF dv \in DOMAIN e.voices
                 THEN Some(<<e.voices[dv].config, e.voices[dv].speaker_id>>)
                 ELSE None
      ELSE IF e.kind \in {"string", "object"}
             THEN Some(<<e.config, e.default_speaker>>)
             ELSE None

new_from_mapfile(file) ==
    IF \E l \in MapLangs : EntryFails(file[l])
      THEN LoadError
      ELSE [state |-> "loaded",
            map |-> [l \in {k \in MapLangs : LegacyOf(file[k]) # None} |->
                        LegacyOf(file[l])[1]],
            voices_map |-> [l \in {k \in MapLangs : IsRich(file[k])} |->
                               <<file[l].default_voice[1], file[l].voices>>]]

\* the result of config_for: Ok((config, speaker_id)) or one of the two errors
ConfigResult(variant, config, speaker_id, lang, voice, available) ==
    [variant |-> variant, config |-> config, speaker_id |-> speaker_id,
     lang |-> lang, voice |-> voice, available |-> available]
OkConfig(c) == ConfigResult("Ok", c[1], c[2], "", "", {})
UnknownVoice(voice, lang, available) ==
    ConfigResult("UnknownVoice", <<>>, None, lang, voice, available)
UnknownLanguage(lang) == ConfigResult("UnknownLanguage", <<>>, None, lang, "", {})
NotResolved == ConfigResult("none", <<>>, None, "", "", {})

config_for(mgr, lang_opt, voice_opt) ==
    LET lang == unwrap_or(lang_opt, "de_DE")
    IN  IF lang \in DOMAIN mgr.voices_map
          THEN LET default_voice == mgr.voices_map[lang][1]
                   voices == mgr.voices_map[lang][2]
                   voice_id == unwrap_or(voice_opt, default_voice)
               IN  IF voice_id \in DOMAIN voices
                     THEN OkConfig(<<voices[voice_id].config, voices[voice_id].speaker_id>>)
                     ELSE UnknownVoice(voice_id, lang, DOMAIN voices)
          ELSE IF lang \in DOMAIN mgr.map
                 THEN OkConfig(mgr.map[lang])
                 ELSE UnknownLanguage(lang)

\* list_languages (205-216): the keys of both maps
list_languages(mgr) == DOMAIN mgr.map \cup DOMAIN mgr.voices_map

QueryLangs == {None, Some("de_DE"), Some("en_US"), Some("xx_XX")}
QueryVoices == {None} \cup {Some(v) : v \in VoiceIds}
NoCall == [lang_opt |-> None, voice_opt |-> None, result |-> NotResolved]

RegistryIdle ==
    /\ mapfile = [l \in MapLangs |-> JsonEntry("absent", <<>>, None, None, <<>>)]
    /\ manager = NotLoaded
    /\ cfg_call = NoCall

RegistryInit ==
    /\ mapfile \in MapFiles
    /\ manager = NotLoaded
    /\ cfg_call = NoCall

Load ==
    /\ manager = NotLoaded
    /\ manager' = new_from_mapfile(mapfile)
    /\ UNCHANGED <<mapfile, cfg_call, text, chunks, vtext, vlang, vresult, wavVars, batchVars, llmVars,
                   streamVars, synthVars, respVars, chatVars>>

ConfigFor(lang_opt, voice_opt) ==
    /\ manager.state = "loaded"
    /\ cfg_call' = [lang_opt |-> lang_opt, voice_opt |-> voice_opt,
                    result |-> config_for(manager, lang_opt, voice_opt)]
    /\ UNCHANGED <<mapfile, manager, text, chunks, vtext, vlang, vresult, wavVars, batchVars, llmVars,
                   streamVars, synthVars, respVars, chatVars>>

(***************************************************************************)
(* encode_wav_base64 (tts_core/src/wav.rs 5-52).                           *)
(* A u32 or usize is the sequence of its 16-bit limbs, least significant   *)
(* first; a sample is given in quarters (4 is 1.0), which f32 holds        *)
(* exactly.  A slice too long to write out is given by its length alone,   *)
(* and its result by the header and the length of the data.                *)
(***************************************************************************)
Limb == 65536
u32_of(n) == <<n % Limb, n \div Limb>>
usize_of(n) == <<n % Limb, n \div Limb, 0, 0>>

\* a + b + carry, limb by limb; the last limb of the result is the carry out
RECURSIVE AddLimbs(_, _, _)
AddLimbs(a, b, carry) ==
    IF a = <<>>
      THEN <<carry>>
      ELSE LET t == a[1] + b[1] + carry
           IN  <<t % Limb>> \o AddLimbs(Tail(a), Tail(b), t \div Limb)

wrapping_add(a, b) == SubSeq(AddLimbs(a, b, 0), 1, Len(a))
overflows(a, b) == AddLimbs(a, b, 0)[Len(a) + 1] # 0

\* `as u32` of a usize: the low 32 bits
as_u32(n) == SubSeq(n, 1, 2)
\* to_le_bytes
RECURSIVE to_le_bytes(_)
to_le_bytes(n) ==
    IF n = <<>> THEN <<>> ELSE <<n[1] % 256, n[1] \div 256>> \o to_le_bytes(Tail(n))

\* s.clamp(-1.0, 1.0)
clamp(q) == IF q < -4 THEN -4 ELSE IF q > 4 THEN 4 ELSE q

\* (clamped * i16::MAX as f32) as i16: the cast truncates toward zero
to_i16(q) ==
    LET c == clamp(q)
    IN  IF c >= 0 THEN (c * 32767) \div 4 ELSE -((-c * 32767) \div 4)

\* the two bytes of an i16 in memory (little-endian target)
i16_bytes(v) == LET w == (v + Limb) % Limb IN <<w % 256, w \div 256>>

pcm_bytes(samples) == Flatten([i \in 1..Len(samples) |-> i16_bytes(to_i16(samples[i]))])

\* general_purpose::STANDARD: A-Z a-z 0-9 + /, padded with =
Base64Alphabet ==
    << "A", "B", "C", "D", "E", "F", "G", "H", "I", "J", "K", "L", "M", "N", "O", "P",
       "Q", "R", "S", "T", "U", "V", "W", "X", "Y", "Z", "a", "b", "c", "d", "e", "f",
       "g", "h", "i", "j", "k", "l", "m", "n", "o", "p", "q", "r", "s", "t", "u", "v",
       "w", "x", "y", "z", "0", "1", "2", "3", "4", "5", "6", "7", "8", "9", "+", "/" >>

\* one group of at most three bytes as four symbols
Base64Group(g) ==
    LET b(i) == IF i <= Len(g) THEN g[i] ELSE 0
        n == b(1) * 65536 + b(2) * 256 + b(3)
        sym(k) == Base64Alphabet[((n \div (64 ^ (4 - k))) % 64) + 1]
    IN  <<sym(1), sym(2),
          IF Len(g) >= 2 THEN sym(3) ELSE "=",
          IF Len(g) >= 3 THEN sym(4) ELSE "=">>

base64_encode(bytes) ==
    Flatten([k \in 1..((Len(bytes) + 2) \div 3) |->
                Base64Group(SubSeq(bytes, 3 * k - 2,
                                   IF 3 * k <= Len(bytes) THEN 3 * k ELSE Len(bytes)))])

\* b"RIFF", b"WAVE", b"fmt ", b"data"
RIFF == <<82, 73, 70, 70>>
WAVE == <<87, 65, 86, 69>>
fmt_ == <<102, 109, 116, 32>>
data == <<100, 97, 116, 97>>

\* the input: the slice (its samples when written out, its length) and the rate
WavInput(samples, listed, len, sample_rate) ==
    [samples |-> samples, listed |-> listed, len |-> len, sample_rate |-> sample_rate]

\* an arithmetic overflow with overflow checks on
Panicked == [variant |-> "panic", header |-> <<>>, data_len |-> usize_of(0), base64 |-> <<>>]
NotEncoded == [variant |-> "none", header |-> <<>>, data_len |-> usize_of(0), base64 |-> <<>>]

\* checked: the build has overflow checks (debug); otherwise + and * wrap
encode_wav_base64(in, checked) ==
    LET num_channels == <<1>>
        bits_per_sample == <<16>>
        byte_rate == wrapping_add(in.sample_rate, in.sample_rate)
        block_align == <<2>>
        len2 == wrapping_add(in.len, in.len)
        data_size == as_u32(len2)
        riff_size == wrapping_add(u32_of(36), data_size)
        overflow == \/ overflows(in.sample_rate, in.sample_rate)
                    \/ overflows(in.len, in.len)
                    \/ overflows(u32_of(36), data_size)
        header == RIFF \o to_le_bytes(riff_size) \o WAVE
                    \o fmt_ \o to_le_bytes(u32_of(16)) \o to_le_bytes(<<1>>)
                    \o to_le_bytes(num_channels) \o to_le_bytes(in.sample_rate)
                    \o to_le_bytes(byte_rate) \o to_le_bytes(block_align)
                    \o to_le_bytes(bits_per_sample)
                    \o data \o to_le_bytes(data_size)
    IN  IF checked /\ overflow
          THEN Panicked
          ELSE [variant |-> "Ok",
                header |-> header,
                data_len |-> len2,
                base64 |-> IF in.listed
                             THEN base64_encode(header \o pcm_bytes(in.samples))
                             ELSE <<>>]

SampleValues == {-8, -2, 1, 4}
\* 22050, 44100, 2^31, 2^32 - 1
SampleRates == {u32_of(22050), u32_of(44100), <<0, 32768>>, <<65535, 65535>>}
\* 2^31 - 19, 2^31 - 18, 2^31, 2^32
LongLens == {<<65517, 32767, 0, 0>>, <<65518, 32767, 0, 0>>, <<0, 32768, 0, 0>>,
             <<0, 0, 1, 0>>}

WavInputs ==
    {WavInput(sm, TRUE, usize_of(Len(sm)), sr) :
        sm \in SeqsUpTo(SampleValues, MaxSamples), sr \in SampleRates}
    \cup {WavInput(<<>>, FALSE, n, sr) : n \in LongLens, sr \in SampleRates}

WavIdle ==
    /\ wav_in = WavInput(<<>>, TRUE, usize_of(0), u32_of(22050))
    /\ wav_out = NotEncoded

WavInit ==
    /\ wav_in \in WavInputs
    /\ wav_out = NotEncoded

Encode(checked) ==
    /\ wav_out = NotEncoded
    /\ wav_out' = encode_wav_base64(wav_in, checked)
    /\ UNCHANGED <<wav_in, registryVars, batchVars, llmVars, text, chunks, vtext, vlang, vresult,
                   streamVars, synthVars, respVars, chatVars>>

(***************************************************************************)
(* TtsManager::synthesize_with_pauses (tts_core/src/lib.rs 419-472) and    *)
(* the producer of stream_ws (server/src/main.rs 609-647) on the same      *)
(* text. Audio is the sequence of its sub-buffers; the samples Piper       *)
(* yields are not modelled: a speech buffer is named by the string spoken. *)
(***************************************************************************)
Speech(s) == [kind |-> "speech", of |-> s, len |-> Len(s) * SamplesPerChar]

\* vec![0.0; n]
Silence(n) == [kind |-> "silence", of |-> <<>>, len |-> n]

\* synth.synthesize_parallel(s, None), collected: the parts Piper yields for s
synthesize_parallel(s) == <<Speech(s)>>

\* get_pause_duration (lib.rs 567-582)
get_pause_duration_Flat(chunk) == 100
get_pause_duration(chunk) ==
    LET trimmed == trim_end(chunk)
        ends(c) == trimmed # <<>> /\ Last(trimmed) = c
    IN  IF ends(".") \/ ends("!") \/ ends("?") THEN 400
        ELSE IF ends(";") \/ ends(":") THEN 250
        ELSE IF ends(",") THEN 150
        ELSE 100

\* `pause_duration_ms as f32 / 1000.0`: the f32 nearest to the quotient, as
\* m * 2^-e with a 24-bit significand m
f32_div_1000(ms) ==
    CASE ms = 400 -> [m |-> 13421773, e |-> 25]
      [] ms = 250 -> [m |-> 8388608, e |-> 25]
      [] ms = 150 -> [m |-> 10066330, e |-> 26]
      [] ms = 100 -> [m |-> 13421773, e |-> 27]

\* `(q * sample_rate as f32) as usize` for 4096 <= sample_rate < 2^17: the exact
\* product q.m * rate = hi * 4096 + lo is rounded to 24 significant bits (ties to
\* even) and the result is truncated toward zero
f32_mul_as_usize(q, rate) ==
    LET A == (q.m \div 4096) * rate
        B == (q.m % 4096) * rate
        hi == A + B \div 4096
        lo == B % 4096
        s == CHOOSE n \in 0..7 : 2^(23 + n) <= hi /\ hi < 2^(24 + n)
        kept == hi \div 2^s
        dropped == (hi % 2^s) * 4096 + lo
        half == 2^(s + 11)
        rounded == IF dropped > half \/ (dropped = half /\ kept % 2 = 1)
                   THEN kept + 1
                   ELSE kept
    IN  rounded \div 2^(q.e - s - 12)

\* pause_samples (lib.rs 466)
pause_samples(pause_duration_ms, sample_rate) ==
    f32_mul_as_usize(f32_div_1000(pause_duration_ms), sample_rate)

\* the loop over chunks.iter().enumerate() (lib.rs 446-469) from index i on
RECURSIVE PausesLoop(_, _, _, _)
PausesLoop(cs, i, sample_rate, all_samples) ==
    IF i >= Len(cs)
    THEN all_samples
    ELSE LET chunk == trim(At(cs, i))
         IN  IF chunk = <<>>
             THEN PausesLoop(cs, i + 1, sample_rate, all_samples)
             ELSE LET spoken == all_samples \o synthesize_parallel(chunk)
                      paused ==
                          IF i < Len(cs) - 1
                          THEN Append(spoken,
                                      Silence(pause_samples(get_pause_duration(At(cs, i)),
                                                            sample_rate)))
                          ELSE spoken
                  IN  PausesLoop(cs, i + 1, sample_rate, paused)

NotSynthesized == [variant |-> "none", samples |-> <<>>, sample_rate |-> 0]

SynthErr == [variant |-> "Err", samples |-> <<>>, sample_rate |-> 0]

\* synthesize_with_pauses once config_for, get_sample_rate and get_or_create_synth
\* have succeeded; `fail`: Piper returns an error for whatever it is given
synthesize_with_pauses(t, sample_rate, fail) ==
    LET cs == split_text_with_pauses(t)
    IN  IF cs = <<>>
        THEN [variant |-> "Ok", samples |-> <<>>, sample_rate |-> sample_rate]
        ELSE IF fail /\ \E k \in 1..Len(cs) : trim(cs[k]) # <<>>
        THEN SynthErr
        ELSE [variant |-> "Ok", samples |-> PausesLoop(cs, 0, sample_rate, <<>>),
              sample_rate |-> sample_rate]

\* the producer of stream_ws (main.rs 609-647): every part of
\* synth.synthesize_parallel(text_clone, None) is sent as Ok(samples_vec), an error
\* as Err
NotProduced == <<[kind |-> "none", of |-> <<>>, len |-> 0]>>

ProducerErr == [kind |-> "error", of |-> <<>>, len |-> 0]

producer(t, fail) == IF fail THEN <<ProducerErr>> ELSE synthesize_parallel(t)

\* the sample rates of the voices
VoiceRates == {16000, 22050, 44100, 48000}

BatchInputs == [text : Texts, sample_rate : VoiceRates, fail : BOOLEAN]

BatchIdle ==
    /\ batch_in = [text |-> <<>>, sample_rate |-> 0, fail |-> FALSE]
    /\ batch_out = NotSynthesized
    /\ stream_out = NotProduced

BatchInit ==
    /\ batch_in \in BatchInputs
    /\ batch_out = NotSynthesized
    /\ stream_out = NotProduced

\* synthesize_with_sample_rate (lib.rs 407-417)
Synthesize ==
    /\ batch_out = NotSynthesized
    /\ batch_out' = synthesize_with_pauses(batch_in.text, batch_in.sample_rate,
                                           batch_in.fail)
    /\ UNCHANGED <<batch_in, stream_out, registryVars, wavVars, llmVars, text, chunks, vtext,
                   vlang, vresult, streamVars, synthVars, respVars, chatVars>>

\* the producer task of a streaming session
Produce ==
    /\ stream_out = NotProduced
    /\ stream_out' = producer(batch_in.text, batch_in.fail)
    /\ UNCHANGED <<batch_in, batch_out, registryVars, wavVars, llmVars, text, chunks, vtext,
                   vlang, vresult, streamVars, synthVars, respVars, chatVars>>

(***************************************************************************)
(* LlmClient::chat_with_history_stream (llm_core/src/lib.rs 694-766).      *)
(* A String is the sequence of its chars; the stream of the provider is    *)
(* given by the tokens it yields and by whether an error follows them.     *)
(***************************************************************************)
StreamTokens == {<<"a">>, <<"b", "c">>}

ProviderStreams ==
    {[tokens |-> t, fail |-> f] : t \in SeqsUpTo(StreamTokens, MaxStreamTokens),
                                  f \in BOOLEAN}

NoStream == [tokens |-> <<>>, fail |-> FALSE]

StreamMessages == {<<"u">>}

\* the conversation tables a call can find: none yet, or one conversation of one turn
StreamSeeds ==
    {<<>>, (1 :> <<Message("user", <<"q">>), Message("assistant", <<"r">>)>>)}

TokenIdle ==
    /\ token_stream = [r \in ChatSlots |-> NoStream]
    /\ taken = [r \in ChatSlots |-> 0]
    /\ full_response = [r \in ChatSlots |-> <<>>]
    /\ yielded = [r \in ChatSlots |-> <<>>]

\* full_response.push_str(&token)
push_str_Replace(str, token) == token
push_str(str, token) == str \o token

\* yield Ok(token), yield Err(e)
YieldOk(token) == [ok |-> TRUE, token |-> token]

YieldErr == [ok |-> FALSE, token |-> <<>>]

\* the call up to Box::pin (lib.rs 699-729): the user message is pushed, the window
\* taken and the stream of the provider obtained
Stream_Call(r, id, m, ps) ==
    /\ cpc[r] = "idle"
    /\ LET cid == IF id = NoId THEN Uuid_new_v4 ELSE id
       IN  /\ conv_id' = [conv_id EXCEPT ![r] = cid]
           /\ conversations' = PushMessage(conversations, cid, Message("user", m))
           /\ compact_messages' =
                  [compact_messages EXCEPT ![r] = tail(conversations'[cid], 10)]
    /\ creq' = [creq EXCEPT ![r] = [conversation_id |-> id, message |-> m]]
    /\ token_stream' = [token_stream EXCEPT ![r] = ps]
    /\ cpc' = [cpc EXCEPT ![r] = "streaming"]
    /\ UNCHANGED <<llm_lock, reply, timed_out, chatLog, chatCalls, taken, full_response,
                   yielded, storageVars, retryVars, streamVars, synthVars, respVars, pureVars>>

\* token_stream.next() is Some(Ok(token)) (lib.rs 735-739)
Stream_Token(r) ==
    /\ cpc[r] = "streaming"
    /\ taken[r] < Len(token_stream[r].tokens)
    /\ LET token == token_stream[r].tokens[taken[r] + 1]
       IN  /\ full_response' = [full_response EXCEPT ![r] = push_str(@, token)]
           /\ yielded' = [yielded EXCEPT ![r] = Append(@, YieldOk(token))]
    /\ taken' = [taken EXCEPT ![r] = @ + 1]
    /\ UNCHANGED <<chatVars, token_stream, storageVars, retryVars, streamVars, synthVars,
                   respVars, pureVars>>

\* token_stream.next() is Some(Err(e)): the error is yielded and the stream returns
\* (lib.rs 740-743)
Stream_Err(r) ==
    /\ cpc[r] = "streaming"
    /\ taken[r] = Len(token_stream[r].tokens)
    /\ token_stream[r].fail
    /\ yielded' = [yielded EXCEPT ![r] = Append(@, YieldErr)]
    /\ cpc' = [cpc EXCEPT ![r] = "ended"]
    /\ UNCHANGED <<conversations, llm_lock, creq, conv_id, compact_messages, reply,
                   timed_out, chatLog, chatCalls, token_stream, taken, full_response,
                   storageVars, retryVars, streamVars, synthVars, respVars, pureVars>>

\* token_stream.next() is None: the assistant message is pushed under the lock
\* (lib.rs 747-758); nothing is stored in streaming mode (760-764)
Stream_End(r) ==
    /\ cpc[r] = "streaming"
    /\ taken[r] = Len(token_stream[r].tokens)
    /\ ~token_stream[r].fail
    /\ conversations' =
           IF conv_id[r] \in DOMAIN conversations
           THEN PushMessage(conversations, conv_id[r],
                            Message("assistant", full_response[r]))
           ELSE conversations
    /\ cpc' = [cpc EXCEPT ![r] = "ended"]
    /\ UNCHANGED <<llm_lock, creq, conv_id, compact_messages, reply, timed_out, chatLog,
                   chatCalls, tokenVars, storageVars, retryVars, streamVars, synthVars,
                   respVars, pureVars>>

\* the consumer drops the stream at a yield: the generator is never resumed
Stream_Drop(r) ==
    /\ cpc[r] = "streaming"
    /\ cpc' = [cpc EXCEPT ![r] = "dropped"]
    /\ UNCHANGED <<conversations, llm_lock, creq, conv_id, compact_messages, reply,
                   timed_out, chatLog, chatCalls, tokenVars, storageVars, retryVars,
                   streamVars, synthVars, respVars, pureVars>>

(***************************************************************************)
(* OpenAiClient::chat (llm_core/src/lib.rs 133-195): the retry loop.       *)
(* A request ends with a success status and a body that parses ("ok") or   *)
(* does not ("bad_body"), with 429 and insufficient_quota ("quota"), with  *)
(* another 429 ("429"), a server error ("5xx"), any other status ("4xx"),  *)
(* or with a transport error ("transport").                                *)
(***************************************************************************)
Outcomes == {"ok", "bad_body", "quota", "429", "5xx", "4xx", "transport"}

\* the outcomes after which the loop goes on (lib.rs 181-185, 188-191)
Retryable_AlsoQuota(outcome) == outcome \in {"quota", "429", "5xx", "transport"}
Retryable(outcome) == outcome \in {"429", "5xx", "transport"}

NotReturned == [variant |-> "none", attempt |-> 0, outcome |-> ""]

\* Ok(content) and the errors, named by the request that caused them
OkReply(n) == [variant |-> "Ok", attempt |-> n, outcome |-> "ok"]

RequestErr(n, outcome) == [variant |-> "Err", attempt |-> n, outcome |-> outcome]

\* anyhow!("OpenAI retry exhausted")
RetryExhausted == [variant |-> "Err", attempt |-> 0, outcome |-> "retry exhausted"]

RetryIdle ==
    /\ max_retries = 0
    /\ attempt = 0
    /\ requests = <<>>
    /\ last_err = None
    /\ opc = "idle"
    /\ oresult = NotReturned

\* the call has entered the loop `for attempt in 0..=self.max_retries`
RetryInit ==
    /\ max_retries \in 0..MaxRetries
    /\ attempt = 0
    /\ requests = <<>>
    /\ last_err = None
    /\ opc = "send"
    /\ oresult = NotReturned

\* req.send() and the match on its result (lib.rs 163-192)
O_Send(outcome) ==
    /\ opc = "send"
    /\ requests' = Append(requests, outcome)
    /\ IF Retryable(outcome)
       THEN /\ last_err' = Some(RequestErr(attempt, outcome))
            /\ opc' = "sleep"
            /\ UNCHANGED oresult
       ELSE /\ oresult' = IF outcome = "ok" THEN OkReply(attempt)
                          ELSE RequestErr(attempt, outcome)
            /\ opc' = "returned"
            /\ UNCHANGED last_err
    /\ UNCHANGED <<max_retries, attempt, storageVars, tokenVars, pureVars, streamVars,
                   synthVars, respVars, chatVars>>

\* thread::sleep(self.backoff(..)) returns and the loop takes its next value, if any
O_Sleep ==
    /\ opc = "sleep"
    /\ attempt' = attempt + 1
    /\ opc' = IF attempt + 1 <= max_retries THEN "send" ELSE "exhausted"
    /\ UNCHANGED <<max_retries, requests, last_err, oresult, storageVars, tokenVars,
                   pureVars, streamVars, synthVars, respVars, chatVars>>

\* after the loop (lib.rs 194)
O_Exhausted ==
    /\ opc = "exhausted"
    /\ oresult' = unwrap_or(last_err, RetryExhausted)
    /\ opc' = "returned"
    /\ UNCHANGED <<max_retries, attempt, requests, last_err, storageVars, tokenVars,
                   pureVars, streamVars, synthVars, respVars, chatVars>>

\* nothing is taken for the storage, nothing is stored
StorageIdle ==
    /\ storage_conv = [r \in ChatSlots |-> None]
    /\ stored = <<>>

LlmIdle == StorageIdle /\ TokenIdle /\ RetryIdle

\* no pure function is applied
SplitIdle ==
    /\ text = <<>>
    /\ chunks = NoChunks

ValidateIdle ==
    /\ vtext = [w \in 1..4 |-> 0]
    /\ vlang = NoLang
    /\ vresult = NotValidated

FnIdle == SplitIdle /\ ValidateIdle /\ RegistryIdle /\ WavIdle /\ BatchIdle /\ LlmIdle

(***************************************************************************)
(* Init                                                                    *)
(***************************************************************************)
StreamInit ==
    /\ script \in Scripts
    /\ valid \in BOOLEAN
    /\ cfgOk \in BOOLEAN
    /\ hpc = "upgrade"
    /\ ppc = "idle"
    /\ pidx = 0
    /\ chan = <<>>
    /\ txDropped = FALSE
    /\ rxDropped = FALSE
    /\ socketOpen = TRUE
    /\ clientClosed = FALSE
    /\ sent = <<>>
    /\ sample_buffer = <<>>
    /\ total_samples = 0
    /\ offset = 0
    /\ chunk_number = 0
    /\ metadata_sent = FALSE
    /\ synthesis_error = FALSE
    /\ synthesis_complete = FALSE
    /\ cur_chunk = <<>>
    /\ nSentItems = 0
    /\ nRecvItems = 0
    /\ sendFailed = FALSE

(***************************************************************************)
(* synthesis_task: the spawn_blocking closure (main.rs 609-647)            *)
(***************************************************************************)
\* what the producer thread never writes
ProducerFrame ==
    UNCHANGED <<script, valid, cfgOk, hpc, rxDropped, socketOpen, clientClosed, sent,
                sample_buffer, total_samples, offset, chunk_number, metadata_sent,
                synthesis_error, synthesis_complete, cur_chunk, nRecvItems, sendFailed,
                synthVars, respVars, chatVars, fnVars>>

\* get_or_create_synth, synth.lock(), synth.synthesize_parallel(text, None)
P_Start ==
    /\ ppc = "start"
    /\ ppc' = IF script.fail \in {"load", "synth"} THEN "send_err" ELSE "iter"
    /\ UNCHANGED <<pidx, chan, txDropped, nSentItems>>
    /\ ProducerFrame

\* Ok(samples) from the iterator: tx.blocking_send(Ok(samples_vec));
\* a failed send breaks out of the loop
P_SendPart ==
    /\ ppc = "iter"
    /\ pidx < Len(script.parts)
    /\ BlockingSend(OkItem(PartSamples(script.parts, pidx + 1)))
    /\ pidx' = pidx + 1
    /\ ppc' = IF rxDropped THEN "exit" ELSE "iter"
    /\ UNCHANGED txDropped
    /\ ProducerFrame

\* Err(e) from the iterator: the error is sent and the loop is left
P_IterErr ==
    /\ ppc = "iter"
    /\ pidx = Len(script.parts)
    /\ script.fail = "chunk"
    /\ ppc' = "send_err"
    /\ UNCHANGED <<pidx, chan, txDropped, nSentItems>>
    /\ ProducerFrame

\* let _ = tx.blocking_send(Err(..)); then the closure returns
P_SendErr ==
    /\ ppc = "send_err"
    /\ BlockingSend(ErrItem)
    /\ ppc' = "exit"
    /\ UNCHANGED <<pidx, txDropped>>
    /\ ProducerFrame

\* the iterator is exhausted
P_IterEnd ==
    /\ ppc = "iter"
    /\ pidx = Len(script.parts)
    /\ script.fail = "none"
    /\ ppc' = "exit"
    /\ UNCHANGED <<pidx, chan, txDropped, nSentItems>>
    /\ ProducerFrame

\* the closure returns: tx is dropped, which closes the channel
P_Exit ==
    /\ ppc = "exit"
    /\ ppc' = "done"
    /\ txDropped' = TRUE
    /\ UNCHANGED <<pidx, chan, nSentItems>>
    /\ ProducerFrame

ProducerNext ==
    \/ P_Start
    \/ P_SendPart
    \/ P_IterErr
    \/ P_SendErr
    \/ P_IterEnd
    \/ P_Exit

(***************************************************************************)
(* The connection handler (main.rs 553-834)                                *)
(***************************************************************************)
\* what the handler never writes
HandlerFrame ==
    UNCHANGED <<script, valid, cfgOk, pidx, txDropped, clientClosed, nSentItems, synthVars, respVars, chatVars, fnVars>>

consumerState == <<sample_buffer, total_samples, offset, chunk_number, metadata_sent,
                   synthesis_error, synthesis_complete, cur_chunk, nRecvItems, sendFailed>>

\* the async block returns: rx (and the socket) are dropped
HandlerReturn ==
    /\ hpc' = "done"
    /\ rxDropped' = TRUE

\* socket.close()
SocketClose == socketOpen' = FALSE

\* validate_tts_request fails: one error frame, nothing else (558-564)
H_Invalid_FallsThrough ==
    /\ hpc = "upgrade"
    /\ ~valid
    /\ SocketSend(ErrorMsg(400))
    /\ hpc' = "config"
    /\ UNCHANGED <<ppc, chan, rxDropped, socketOpen, consumerState>>
    /\ HandlerFrame
H_Invalid ==
    /\ hpc = "upgrade"
    /\ ~valid
    /\ SocketSend(ErrorMsg(400))
    /\ HandlerReturn
    /\ UNCHANGED <<ppc, chan, socketOpen, consumerState>>
    /\ HandlerFrame

\* status "synthesizing" (570-576)
H_StatusSynthesizing ==
    /\ hpc = "upgrade"
    /\ valid
    /\ SocketSend(StatusMsg("synthesizing"))
    /\ hpc' = "config"
    /\ UNCHANGED <<ppc, chan, rxDropped, socketOpen, consumerState>>
    /\ HandlerFrame

\* config_for fails: error frame, close, return (589-597)
H_ConfigErr ==
    /\ hpc = "config"
    /\ ~cfgOk
    /\ SocketSend(ErrorMsg(500))
    /\ SocketClose
    /\ HandlerReturn
    /\ UNCHANGED <<ppc, chan, consumerState>>
    /\ HandlerFrame

\* channel created, synthesis_task spawned (600-647)
H_Spawn ==
    /\ hpc = "config"
    /\ cfgOk
    /\ ppc' = "start"
    /\ hpc' = "status_streaming"
    /\ UNCHANGED <<chan, rxDropped, socketOpen, sent, consumerState>>
    /\ HandlerFrame

\* status "streaming" (650-656)
H_StatusStreaming ==
    /\ hpc = "status_streaming"
    /\ SocketSend(StatusMsg("streaming"))
    /\ hpc' = "recv"
    /\ UNCHANGED <<ppc, chan, rxDropped, socketOpen, consumerState>>
    /\ HandlerFrame

\* rx.recv().await returns Some(Ok(chunk_samples)) (674-677)
H_RecvOk ==
    /\ hpc = "recv"
    /\ chan # <<>>
    /\ RecvItem(chan).ok
    /\ chan' = RecvRest(chan)
    /\ nRecvItems' = nRecvItems + 1
    /\ sample_buffer' = sample_buffer \o RecvItem(chan).samples
    /\ total_samples' = total_samples + Len(RecvItem(chan).samples)
    /\ hpc' = "hop"
    /\ UNCHANGED <<ppc, rxDropped, socketOpen, sent, offset, chunk_number, metadata_sent,
                   synthesis_error, synthesis_complete, cur_chunk, sendFailed>>
    /\ HandlerFrame

\* rx.recv().await returns Some(Err(e)) (747-750)
H_RecvErr ==
    /\ hpc = "recv"
    /\ chan # <<>>
    /\ ~RecvItem(chan).ok
    /\ chan' = RecvRest(chan)
    /\ nRecvItems' = nRecvItems + 1
    /\ synthesis_error' = TRUE
    /\ hpc' = "await"
    /\ UNCHANGED <<ppc, rxDropped, socketOpen, sent, sample_buffer, total_samples, offset,
                   chunk_number, metadata_sent, synthesis_complete, cur_chunk, sendFailed>>
    /\ HandlerFrame

\* rx.recv().await returns None: every sender is gone and the channel is empty (751-754)
H_RecvNone ==
    /\ hpc = "recv"
    /\ chan = <<>>
    /\ txDropped
    /\ hpc' = "await"
    /\ UNCHANGED <<ppc, chan, rxDropped, socketOpen, sent, consumerState>>
    /\ HandlerFrame

\* sample_buffer.drain(..hop_size)
DrainHop_FromBack(buf) == SubSeq(buf, Len(buf) - hop_size + 1, Len(buf))
DrainHop(buf) == SubSeq(buf, 1, hop_size)

DrainRest(buf) == SubSeq(buf, hop_size + 1, Len(buf))

\* while sample_buffer.len() >= hop_size: drain one hop (680-693)
H_Hop ==
    /\ hpc = "hop"
    /\ IF Len(sample_buffer) >= hop_size
       THEN /\ cur_chunk' = DrainHop(sample_buffer)
            /\ sample_buffer' = DrainRest(sample_buffer)
            /\ hpc' = IF metadata_sent THEN "send_chunk" ELSE "send_meta"
       ELSE /\ hpc' = "recv"
            /\ UNCHANGED <<cur_chunk, sample_buffer>>
    /\ UNCHANGED <<ppc, chan, rxDropped, socketOpen, sent, total_samples, offset,
                   chunk_number, metadata_sent, synthesis_error, synthesis_complete,
                   nRecvItems, sendFailed>>
    /\ HandlerFrame

\* the preliminary metadata, once (697-709)
H_SendMeta ==
    /\ hpc = "send_meta"
    /\ SocketSend(MetadataMsg(0, 0))
    /\ metadata_sent' = TRUE
    /\ hpc' = "send_chunk"
    /\ UNCHANGED <<ppc, chan, rxDropped, socketOpen, sample_buffer, total_samples, offset,
                   chunk_number, synthesis_error, synthesis_complete, cur_chunk,
                   nRecvItems, sendFailed>>
    /\ HandlerFrame

\* chunk_number += 1; the chunk message; on a failed send the loops are left,
\* otherwise offset += hop_size (714-745)
H_SendChunk ==
    /\ hpc = "send_chunk"
    /\ chunk_number' = chunk_number + 1
    /\ SocketSend(ChunkMsg(cur_chunk, chunk_number + 1, 0, offset,
                            Progress(offset, total_samples)))
    /\ IF socketOpen
       THEN /\ offset' = offset + hop_size
            /\ hpc' = "hop"
            /\ UNCHANGED <<synthesis_complete, sendFailed>>
       ELSE /\ synthesis_complete' = TRUE
            /\ sendFailed' = TRUE
            /\ hpc' = "await"
            /\ UNCHANGED offset
    /\ UNCHANGED <<ppc, chan, rxDropped, socketOpen, sample_buffer, total_samples,
                   metadata_sent, synthesis_error, cur_chunk, nRecvItems>>
    /\ HandlerFrame

\* the check after synthesis_task.await: `if let Some(err) = synthesis_error` (762)
AfterAwait_IgnoreError(err) == "final"
AfterAwait(err) == IF err THEN "send_err" ELSE "final"

\* synthesis_task.await returns (759)
H_Await ==
    /\ hpc = "await"
    /\ ppc = "done"
    /\ hpc' = AfterAwait(synthesis_error)
    /\ UNCHANGED <<ppc, chan, rxDropped, socketOpen, sent, consumerState>>
    /\ HandlerFrame

\* the producer's error: error frame, close, return (763-766)
H_SendErr ==
    /\ hpc = "send_err"
    /\ SocketSend(ErrorMsg(500))
    /\ SocketClose
    /\ HandlerReturn
    /\ UNCHANGED <<ppc, chan, consumerState>>
    /\ HandlerFrame

\* final_chunk: the remainder, zero-padded to hop_size
PadToHop_NoPad(buf) == buf
PadToHop(buf) == buf \o [i \in 1..(hop_size - Len(buf)) |-> 0]

\* `!sample_buffer.is_empty() && sample_buffer.len() >= hop_size / 2` (772)
SignificantRemainder_Any(buf) == buf # <<>>
SignificantRemainder(buf) == buf # <<>> /\ Len(buf) >= hop_size \div 2

\* the remainder of sample_buffer (772-810)
H_Final ==
    /\ hpc = "final"
    /\ IF SignificantRemainder(sample_buffer)
       THEN /\ chunk_number' = chunk_number + 1
            /\ sample_buffer' = <<>>
            /\ SocketSend(ChunkMsg(PadToHop(sample_buffer), chunk_number + 1,
                                   chunk_number + 1, offset, 100))
       ELSE UNCHANGED <<chunk_number, sample_buffer, sent>>
    /\ hpc' = "final_meta"
    /\ UNCHANGED <<ppc, chan, rxDropped, socketOpen, total_samples, offset, metadata_sent,
                   synthesis_error, synthesis_complete, cur_chunk, nRecvItems, sendFailed>>
    /\ HandlerFrame

\* the final metadata (813-824)
H_FinalMeta ==
    /\ hpc = "final_meta"
    /\ SocketSend(MetadataMsg(total_samples, chunk_number))
    /\ hpc' = "complete"
    /\ UNCHANGED <<ppc, chan, rxDropped, socketOpen, consumerState>>
    /\ HandlerFrame

\* status "complete", close (826-832)
H_Complete ==
    /\ hpc = "complete"
    /\ SocketSend(StatusMsg("complete"))
    /\ SocketClose
    /\ HandlerReturn
    /\ UNCHANGED <<ppc, chan, consumerState>>
    /\ HandlerFrame

HandlerNext ==
    \/ H_Invalid
    \/ H_StatusSynthesizing
    \/ H_ConfigErr
    \/ H_Spawn
    \/ H_StatusStreaming
    \/ H_RecvOk
    \/ H_RecvErr
    \/ H_RecvNone
    \/ H_Hop
    \/ H_SendMeta
    \/ H_SendChunk
    \/ H_Await
    \/ H_SendErr
    \/ H_Final
    \/ H_FinalMeta
    \/ H_Complete

\* the client closes the connection: every later send fails
ClientClose ==
    /\ hpc # "done"
    /\ socketOpen
    /\ socketOpen' = FALSE
    /\ clientClosed' = TRUE
    /\ UNCHANGED <<script, valid, cfgOk, hpc, ppc, pidx, chan, txDropped, rxDropped, sent,
                   consumerState, nSentItems, synthVars, respVars, chatVars, fnVars>>

StreamNext ==
    \/ P_Start
    \/ P_SendPart
    \/ P_IterErr
    \/ P_SendErr
    \/ P_IterEnd
    \/ P_Exit
    \/ H_Invalid
    \/ H_StatusSynthesizing
    \/ H_ConfigErr
    \/ H_Spawn
    \/ H_StatusStreaming
    \/ H_RecvOk
    \/ H_RecvErr
    \/ H_RecvNone
    \/ H_Hop
    \/ H_SendMeta
    \/ H_SendChunk
    \/ H_Await
    \/ H_SendErr
    \/ H_Final
    \/ H_FinalMeta
    \/ H_Complete
    \/ ClientClose

\* one streaming session; nobody calls get_or_create_synth meanwhile
StreamSpecInit == StreamInit /\ SynthInit /\ RespInit /\ ChatIdle /\ FnIdle

StreamSpec == StreamSpecInit /\ [][StreamNext]_vars

(***************************************************************************)
(* Properties of stream_ws                                                 *)
(***************************************************************************)
IsChunk(m) == m.type = "chunk"

ChunkMsgs == SelectSeq(sent, IsChunk)

\* the `audio` arrays of the chunk messages, concatenated in send order
SentAudio == Flatten([i \in 1..Len(ChunkMsgs) |-> ChunkMsgs[i].audio])

IsSample(x) == x # 0

\* the session ran to its end and the client saw all of it
SessionCompleted == sent # <<>> /\ Last(sent) = StatusMsg("complete")

\* C1: in every streaming session that reaches completion, the lengths of the
\* `audio` arrays of the chunk messages add up to the total_samples of the final
\* metadata message.
C1_AudioSumEqualsTotalSamples ==
    SessionCompleted =>
        /\ Len(sent) >= 2
        /\ sent[Len(sent) - 1].type = "metadata"
        /\ Len(SentAudio) = sent[Len(sent) - 1].total_samples

C3_ErrorFrameIsLast ==
    /\ [](\A i \in 1..Len(sent) : sent[i].type = "error" => i = Len(sent))
    /\ []((hpc = "done" /\ synthesis_error /\ ~clientClosed) =>
              /\ sent # <<>>
              /\ Last(sent) = ErrorMsg(500)
              /\ ~socketOpen)
    /\ [][IsPrefix(sent, sent')]_vars

C3_Witness ==
    /\ hpc = "done"
    /\ synthesis_error
    /\ ~clientClosed
    /\ ChunkMsgs # <<>>
    /\ Last(sent) = ErrorMsg(500)

\* C4: once a chunk send has failed (the client closed the socket), the producer
\* task and the connection handler both run to their end: they are never both
\* stuck before it.
C4_CloseTerminatesProducerAndHandler ==
    sendFailed =>
        \/ ppc = "done" /\ hpc = "done"
        \/ ENABLED (ProducerNext \/ HandlerNext)

\* C5: the bridge channel never holds more than 100 items, the producer cannot
\* send while it is full, and every sample the producer took from the
\* synthesizer is either received or still queued.
QueuedSamples == SumSeq([i \in 1..Len(chan) |-> Len(chan[i].samples)])

C5_ChannelBounded ==
    /\ Len(chan) <= ChannelCapacity
    /\ (Len(chan) = ChannelCapacity /\ ~rxDropped) => ~ENABLED (P_SendPart \/ P_SendErr)
    /\ nSentItems = nRecvItems + Len(chan)
    /\ total_samples + QueuedSamples = Len(Produced)

C5_Witness ==
    /\ Len(chan) = ChannelCapacity
    /\ ppc = "iter"
    /\ pidx < Len(script.parts)

\* C6: the samples of the chunk messages, in send order and without the zero
\* padding at the end, are a prefix of the samples in production order.
C6_ChunksArePrefixOfProduced ==
    LET real == SelectSeq(SentAudio, IsSample)
    IN  /\ IsPrefix(real, Produced)
        /\ SentAudio = real \o [i \in 1..(Len(SentAudio) - Len(real)) |-> 0]

C6_Witness ==
    /\ Len(ChunkMsgs) >= 2
    /\ nRecvItems >= 2
    /\ hpc = "done"

(***************************************************************************)
(* The synthesizer cache under concurrent callers                          *)
(***************************************************************************)
\* no streaming session is running
StreamIdle ==
    /\ StreamInit
    /\ script = [parts |-> <<>>, fail |-> "none"]
    /\ valid
    /\ cfgOk

SynthCacheNext ==
    \/ \E t \in Threads, p \in Paths : T_Call(t, p)
    \/ \E t \in Threads : T_LoadOk(t)
    \/ \E t \in Threads : T_LoadErr(t)
    \/ \E t \in Threads : T_CheckLen(t)
    \/ \E t \in Threads : T_Scan(t)
    \/ \E t \in Threads : T_Remove(t)
    \/ \E t \in Threads : T_Insert(t)
    \/ \E t \in Threads : T_Drop(t)

SynthCacheInit == StreamIdle /\ SynthInit /\ RespInit /\ ChatIdle /\ FnIdle

SynthCacheSpec == SynthCacheInit /\ [][SynthCacheNext]_vars

\* C7: after any sequence of get_or_create_synth calls, concurrent misses
\* included, the cache holds at most max_cache_size entries.
C7_CacheWithinBound == Cardinality(DOMAIN cache) <= max_cache_size

\* C8: a handle a caller holds is never freed, also when its entry has been
\* evicted; and an eviction removes the entry whoever holds its handle.
C8_HeldHandleSurvivesEviction ==
    /\ [](\A t \in Threads : held[t] # 0 => held[t] \notin Freed)
    /\ [][\A t \in Threads :
            (tpc[t] = "remove" /\ tpc'[t] = "insert" /\ oldest_key[t] # NoKey)
                => oldest_key[t] \notin DOMAIN cache']_vars

\* a caller holds the handle of a path whose entry another thread's miss evicted
C8_Witness ==
    \E t \in Threads :
        /\ held[t] # 0
        /\ tpath[t] \notin DOMAIN cache
        /\ \A p \in DOMAIN cache : cache[p].synth # held[t]
        /\ \E u \in Threads \ {t} : oldest_key[u] = tpath[t]
        /\ Cardinality(DOMAIN cache) = max_cache_size

(***************************************************************************)
(* The response cache under concurrent requests                            *)
(***************************************************************************)
RespCacheNext ==
    \/ \E r \in Slots, tu \in Tuples : R_Lookup(r, tu)
    \/ \E r \in Slots : R_SynthOk(r)
    \/ \E r \in Slots : R_SynthErr(r)
    \/ \E r \in Slots : R_Put(r)
    \/ \E t \in Times : Tick(t)

RespCacheInit == StreamIdle /\ SynthInit /\ RespInit /\ ChatIdle /\ FnIdle

RespCacheSpec == RespCacheInit /\ [][RespCacheNext]_vars

\* C9: a second synthesize_with_cache call with the same (text, language, voice),
\* made after the first returned and within the TTL of it, returns the same
\* audio_base64, sample_rate and duration_ms.
C9_SecondCallReturnsSame ==
    \A i, j \in 1..Len(returns) :
        (/\ i < j
         /\ returns[i].tuple = returns[j].tuple
         /\ returns[j].begun >= i
         /\ returns[j].start - returns[i].at < response_cache_ttl)
            => returns[j].result = returns[i].result

\* C10: a lookup never returns an entry that was stored for another tuple.
C10_NoEntryOfAnotherTuple ==
    \A i \in 1..Len(returns) : returns[i].stored_for = returns[i].tuple

(***************************************************************************)
(* Specification of the chat path                                          *)
(***************************************************************************)
ChatNext ==
    \/ \E r \in ChatSlots, id \in RequestIds, m \in ChatMessages : Chat_Request(r, id, m)
    \/ \E r \in ChatSlots, id \in RequestIds, m \in ChatMessages : Chat_Invalid(r, id, m)
    \/ \E r \in ChatSlots : Chat_Lock(r)
    \/ \E r \in ChatSlots : Chat_Prepare(r)
    \/ \E r \in ChatSlots, rep \in Replies : Chat_ProviderOk(r, rep)
    \/ \E r \in ChatSlots : Chat_ProviderErr(r)
    \/ \E r \in ChatSlots : Chat_Update(r)
    \/ \E r \in ChatSlots : Chat_Timeout(r)

ChatSpecInit == StreamIdle /\ SynthInit /\ RespInit /\ ChatInit /\ FnIdle

ChatSpec == ChatSpecInit /\ [][ChatNext]_vars

(***************************************************************************)
(* Properties of the chat path                                             *)
(***************************************************************************)
\* C11: while one chat request waits on the LLM provider, no lock is held for it,
\* and another chat request that has been spawned is not blocked: it can take
\* state.llm and go on to its own provider call.
C11_ProviderCallBlocksNobody ==
    \A r \in ChatSlots :
        cpc[r] = "calling" =>
            /\ llm_lock # r
            /\ \A q \in ChatSlots \ {r} : cpc[q] = "spawned" => ENABLED Chat_Lock(q)

\* C12: the messages a chat_with_history call passes to the provider are a
\* contiguous suffix of the conversation's messages at the time of the call, and
\* at most 12 messages.
C12_WindowIsBoundedSuffix ==
    [][\A r \in ChatSlots :
          (cpc[r] = "locked" /\ cpc'[r] = "calling") =>
              LET all == conversations'[conv_id[r]]
                  w == compact_messages'[r]
              IN  /\ Len(w) <= 12
                  /\ Len(w) <= Len(all)
                  /\ \A i \in 1..Len(w) : w[i] = all[Len(all) - Len(w) + i]]_vars

\* a call is at the provider with a window shorter than its conversation
C12_Witness ==
    \E r \in ChatSlots :
        /\ cpc[r] = "calling"
        /\ conv_id[r] \in DOMAIN conversations
        /\ Len(compact_messages[r]) < Len(conversations[conv_id[r]])

\* C13: when the conversation holds at least 12 messages at the time of the call,
\* the messages passed to the provider are exactly its last 12 messages.
C13_WindowIsLastTwelve ==
    \A r \in ChatSlots :
        (/\ cpc[r] = "calling"
         /\ conv_id[r] \in DOMAIN conversations
         /\ Len(conversations[conv_id[r]]) >= 12) =>
            LET all == conversations[conv_id[r]]
            IN  compact_messages[r] = SubSeq(all, Len(all) - 11, Len(all))

\* call j is the follow-up of call i: i opened the conversation and was answered
\* with its id, j carries that id and is the next call on that conversation
FollowsUp(i, j) ==
    /\ i < j
    /\ chatLog[i].response = "ok"
    /\ Len(chatLog[i].window) = 1
    /\ chatLog[j].conversation_id = chatLog[i].conv_id
    /\ \A k \in (i + 1)..(j - 1) : chatLog[k].conv_id # chatLog[i].conv_id

\* C14: a follow-up call that carries the conversation id a first successful call
\* returned passes [first user message, first reply, new user message] to the
\* provider, in that order, and is answered under the same conversation id.
C14_FollowUpSeesFirstTurn ==
    \A i, j \in 1..Len(chatLog) :
        FollowsUp(i, j) =>
            /\ chatLog[j].window = << Message("user", chatLog[i].message),
                                      Message("assistant", chatLog[i].reply),
                                      Message("user", chatLog[j].message) >>
            /\ chatLog[j].conv_id = chatLog[i].conv_id

\* a follow-up call has been answered, on an id the server generated
C14_Witness ==
    \E i, j \in 1..Len(chatLog) :
        /\ FollowsUp(i, j)
        /\ chatLog[i].conversation_id = NoId
        /\ chatLog[j].response = "ok"
        /\ chatLog[j].message # chatLog[i].message

\* C15: the conversation table never holds more than 100 conversations.
C15_AtMostHundredConversations == Cardinality(DOMAIN conversations) <= 100

\* C16: a call whose (conv_id, user_message) equals that of an earlier completed
\* call returns the earlier reply and does not call the provider.
C16_RepeatedCallServedFromCache ==
    \A i, j \in 1..Len(chatLog) :
        (/\ i < j
         /\ chatLog[i].reply # NoReply
         /\ chatLog[j].conv_id = chatLog[i].conv_id
         /\ chatLog[j].message = chatLog[i].message) =>
            /\ chatLog[j].window = <<>>
            /\ chatLog[j].reply = chatLog[i].reply

(***************************************************************************)
(* Specification of split_text_with_pauses: one call on a text of Texts    *)
(***************************************************************************)
ChunkNext == Split

ChunkSpecInit ==
    /\ StreamIdle /\ SynthInit /\ RespInit /\ ChatIdle
    /\ SplitInit
    /\ ValidateIdle
    /\ RegistryIdle
    /\ WavIdle
    /\ BatchIdle
    /\ LlmIdle

ChunkSpec == ChunkSpecInit /\ [][ChunkNext]_vars

(***************************************************************************)
(* Properties of split_text_with_pauses                                    *)
(***************************************************************************)
\* the chunks, concatenated
Concatenated == Flatten(chunks)

\* the positions of the text (counted from 1) at which a chunk ends
ChunkEnds == {Len(Flatten(SubSeq(chunks, 1, k))) : k \in 1..Len(chunks)}

\* a chunk ends at the mark at position p or at the space attached to it
BoundaryAt(p) ==
    \/ p \in ChunkEnds
    \/ p < Len(text) /\ text[p + 1] = " " /\ (p + 1) \in ChunkEnds

\* C17 as stated: the chunks, concatenated in order, are the input.
C17_ConcatenationIsInput == chunks # NoChunks => Concatenated = text

\* C17 as amended: the chunks, concatenated in order, are the input without the
\* whitespace-only text that follows its last boundary: a prefix of the input,
\* and what is left out is whitespace that follows a closed chunk.
C17_ConcatenationIsInputButTrailingWhitespace ==
    chunks # NoChunks =>
        LET rest == SubSeq(text, Len(Concatenated) + 1, Len(text))
        IN  /\ IsPrefix(Concatenated, text)
            /\ trim(rest) = <<>>
            /\ rest # <<>> =>
                   /\ trim_end(Concatenated) # <<>>
                   /\ Last(trim_end(Concatenated)) \in {".", "!", "?", ",", ";", ":"}

\* two chunks were returned and whitespace after the last boundary was left out
C17_Witness ==
    /\ chunks # NoChunks
    /\ Len(chunks) >= 2
    /\ Len(Concatenated) < Len(text)

\* position p of the text holds a '.' that ends a whitelisted abbreviation
EndsAbbreviation(p) ==
    /\ text[p] = "."
    /\ \E a \in Abbreviations : ends_with(SubSeq(text, 1, p), a)

\* C18: no chunk ends at a '.' that ends a whitelisted abbreviation, whatever
\* char follows it; "Dr. Smith said hi." is returned as one chunk, its only
\* boundary after "hi.".
C18_NoBoundaryAfterAbbreviation ==
    chunks # NoChunks =>
        /\ \A p \in 1..(Len(text) - 1) :
               EndsAbbreviation(p) =>
                   /\ p \notin ChunkEnds
                   /\ ~(text[p + 1] = " " /\ p + 1 < Len(text) /\ (p + 1) \in ChunkEnds)
        /\ text = DrSmith => chunks = <<DrSmith>>

\* the comma at position p stands between two ASCII digits
FlankedByDigits(p) ==
    /\ 1 < p
    /\ p < Len(text)
    /\ is_ascii_digit(text[p - 1])
    /\ is_ascii_digit(text[p + 1])

\* C19: a ',' is a chunk boundary if and only if it is not flanked on both sides
\* by ASCII digits.
C19_CommaBoundaryUnlessBetweenDigits ==
    chunks # NoChunks =>
        \A p \in 1..Len(text) :
            text[p] = "," => (BoundaryAt(p) <=> ~FlankedByDigits(p))

(***************************************************************************)
(* Specification of validate_tts_request: one call                         *)
(***************************************************************************)
ValidateNext == Validate

ValidateSpecInit ==
    /\ StreamIdle /\ SynthInit /\ RespInit /\ ChatIdle
    /\ SplitIdle
    /\ ValidateInit
    /\ RegistryIdle
    /\ WavIdle
    /\ BatchIdle
    /\ LlmIdle

ValidateSpec == ValidateSpecInit /\ [][ValidateNext]_vars

\* C20: validate_tts_request accepts a text if and only if it has between 1 and
\* 5000 chars, whatever the chars are; a text it does not accept is answered with
\* InvalidInput, status 400.
C20_TextAcceptedIffOneToFiveThousandChars ==
    (vresult # NotValidated /\ vlang = NoLang) =>
        /\ vresult = Ok <=> (1 <= CharCount(vtext) /\ CharCount(vtext) <= 5000)
        /\ vresult # Ok => vresult.variant = "InvalidInput" /\ vresult.status = 400

\* a language code of the form ll or ll_CC
WellFormedLanguage(code) ==
    \/ /\ Len(code) = 2
       /\ is_ascii_lowercase(code[1]) /\ is_ascii_lowercase(code[2])
    \/ /\ Len(code) = 5
       /\ is_ascii_lowercase(code[1]) /\ is_ascii_lowercase(code[2])
       /\ code[3] = "_"
       /\ is_ascii_uppercase(code[4]) /\ is_ascii_uppercase(code[5])

\* C21: validate_tts_request accepts a supplied language code if and only if it
\* is two lowercase ASCII letters, optionally followed by '_' and two uppercase
\* ASCII letters; any other code is answered with InvalidInput, status 400.
C21_LanguageAcceptedIffWellFormed ==
    (/\ vresult # NotValidated
     /\ vlang # NoLang
     /\ ByteLen(vtext) >= MIN_TEXT_LENGTH /\ ByteLen(vtext) <= MAX_TEXT_LENGTH) =>
        /\ vresult = Ok <=> WellFormedLanguage(vlang)
        /\ vresult # Ok => vresult.variant = "InvalidInput" /\ vresult.status = 400

\* "en_US" has been accepted
C21_Witness ==
    /\ vresult = Ok
    /\ vlang = <<"e", "n", "_", "U", "S">>

\* C23: when the request fails validation the handler sends one message, the
\* error frame with code 400, and returns: no status, metadata or chunk message
\* is sent, no channel is made and no synthesis task is started.
C23_InvalidRequestGetsOneErrorFrame ==
    /\ [](~valid =>
             /\ ppc = "idle"
             /\ chan = <<>>
             /\ \A i \in 1..Len(sent) : sent[i] = ErrorMsg(400) /\ i = 1)
    /\ []((~valid /\ hpc = "done" /\ ~clientClosed) => sent = <<ErrorMsg(400)>>)
    /\ [][(~valid /\ hpc = "done") => (sent' = sent /\ hpc' = "done")]_vars

\* the error frame of a request that failed validation has been sent
C23_Witness ==
    /\ ~valid
    /\ hpc = "done"
    /\ sent = <<ErrorMsg(400)>>

\* C22: a chat request whose conversation_id is supplied and is no UUID is
\* answered 400 before any work is done: the step that answers it leaves the
\* conversation table and the LLM lock alone, no request with such an id is ever
\* spawned, reaches the provider or is answered otherwise, and no conversation
\* is ever kept under such an id.
C22_MalformedIdRejectedBeforeWork ==
    /\ [](/\ \A r \in ChatSlots :
                cpc[r] # "idle" => creq[r].conversation_id \notin MalformedIds
          /\ DOMAIN conversations \cap MalformedIds = {}
          /\ \A i \in 1..Len(chatLog) :
                chatLog[i].conversation_id \in MalformedIds =>
                    /\ chatLog[i].response = "invalid_input"
                    /\ chatLog[i].window = <<>>
                    /\ chatLog[i].reply = NoReply)
    /\ [][(/\ Len(chatLog') = Len(chatLog) + 1
           /\ Last(chatLog').conversation_id \in MalformedIds) =>
              /\ conversations' = conversations
              /\ llm_lock' = llm_lock
              /\ cpc' = cpc]_vars

\* a request with a malformed id has been answered while another call was at
\* the provider
C22_Witness ==
    /\ \E i \in 1..Len(chatLog) :
          /\ chatLog[i].conversation_id \in MalformedIds
          /\ chatLog[i].response = "invalid_input"
    /\ \E r \in ChatSlots : cpc[r] = "calling"

(***************************************************************************)
(* Specification of the voice registry: one load, then config_for calls    *)
(***************************************************************************)
RegistryNext ==
    \/ Load
    \/ \E l \in QueryLangs, v \in QueryVoices : ConfigFor(l, v)

RegistrySpecInit ==
    /\ StreamIdle /\ SynthInit /\ RespInit /\ ChatIdle
    /\ SplitIdle /\ ValidateIdle /\ WavIdle /\ BatchIdle /\ LlmIdle
    /\ RegistryInit

RegistrySpec == RegistrySpecInit /\ [][RegistryNext]_vars

\* the voices registered for a language: the keys of its voice map
RegisteredVoices(lang) ==
    IF lang \in DOMAIN manager.voices_map THEN DOMAIN manager.voices_map[lang][2] ELSE {}

\* C24: config_for resolves an omitted lang as de_DE; it fails with the
\* unknown-language error when lang is in neither map, with the unknown-voice
\* error that lists the registered voices whenever a voice is supplied that is
\* not registered for lang, and otherwise returns the config path and speaker id
\* of the selected voice, or of the default voice when none is supplied.
C24_ConfigForResolvesOrNamesTheUnknown ==
    cfg_call # NoCall =>
        LET lang == IF cfg_call.lang_opt = None THEN "de_DE" ELSE cfg_call.lang_opt[1]
            res == cfg_call.result
            rich == lang \in DOMAIN manager.voices_map
        IN  IF lang \notin DOMAIN manager.map \cup DOMAIN manager.voices_map
              THEN res.variant = "UnknownLanguage" /\ res.lang = lang
              ELSE IF /\ cfg_call.voice_opt # None
                      /\ cfg_call.voice_opt[1] \notin RegisteredVoices(lang)
                     THEN /\ res.variant = "UnknownVoice"
                          /\ res.voice = cfg_call.voice_opt[1]
                          /\ res.available = RegisteredVoices(lang)
                     ELSE /\ res.variant = "Ok"
                          /\ rich =>
                               LET v == IF cfg_call.voice_opt = None
                                          THEN manager.voices_map[lang][1]
                                          ELSE cfg_call.voice_opt[1]
                               IN  /\ v \in RegisteredVoices(lang)
                                   /\ res.config = manager.voices_map[lang][2][v].config
                                   /\ res.speaker_id = manager.voices_map[lang][2][v].speaker_id
                          /\ ~rich => <<res.config, res.speaker_id>> = manager.map[lang]

(***************************************************************************)
(* Specification of encode_wav_base64: one call, in either build           *)
(***************************************************************************)
WavNext == \E checked \in BOOLEAN : Encode(checked)

WavSpecInit ==
    /\ StreamIdle /\ SynthInit /\ RespInit /\ ChatIdle
    /\ SplitIdle /\ ValidateIdle /\ RegistryIdle /\ BatchIdle /\ LlmIdle
    /\ WavInit

WavSpec == WavSpecInit /\ [][WavNext]_vars

\* the value of little-endian bytes, as 16-bit limbs
RECURSIVE from_le_bytes(_)
from_le_bytes(b) ==
    IF b = <<>> THEN <<>> ELSE <<b[1] + 256 * b[2]>> \o from_le_bytes(Tail(Tail(b)))

\* the bytes that four base64 symbols stand for
Base64Value(c) == IF c = "=" THEN 0 ELSE (CHOOSE i \in 1..64 : Base64Alphabet[i] = c) - 1

Base64Ungroup(q) ==
    LET n == Base64Value(q[1]) * 262144 + Base64Value(q[2]) * 4096
               + Base64Value(q[3]) * 64 + Base64Value(q[4])
        all == <<n \div 65536, (n \div 256) % 256, n % 256>>
    IN  SubSeq(all, 1, IF q[3] = "=" THEN 1 ELSE IF q[4] = "=" THEN 2 ELSE 3)

base64_decode(t) ==
    Flatten([k \in 1..(Len(t) \div 4) |-> Base64Ungroup(SubSeq(t, 4 * k - 3, 4 * k))])

\* 2 * n of a usize, exactly: one limb more than n
Twice(n) == AddLimbs(n, n, 0)

\* the header is that of a RIFF/WAVE file, PCM, mono, 16 bits, with this rate
\* and this many bytes of data
WavHeaderSays(h, sample_rate, data_bytes) ==
    /\ Len(h) = 44
    /\ SubSeq(h, 1, 4) = RIFF
    /\ SubSeq(h, 9, 12) = WAVE
    /\ SubSeq(h, 13, 16) = fmt_
    /\ from_le_bytes(SubSeq(h, 17, 20)) = u32_of(16)
    /\ from_le_bytes(SubSeq(h, 21, 22)) = <<1>>
    /\ from_le_bytes(SubSeq(h, 23, 24)) = <<1>>
    /\ from_le_bytes(SubSeq(h, 25, 28)) = sample_rate
    /\ from_le_bytes(SubSeq(h, 35, 36)) = <<16>>
    /\ SubSeq(h, 37, 40) = data
    /\ from_le_bytes(SubSeq(h, 41, 44)) \o <<0, 0, 0>> = data_bytes

Oldest(c) == {k \in DOMAIN c : \A j \in DOMAIN c : c[k].last_accessed <= c[j].last_accessed}

\* C26: a miss that finds the cache full evicts exactly one entry, one with the
\* smallest last_accessed among the entries present; a miss that finds room
\* goes on to its insert, and nothing but the eviction of a miss that found the
\* cache full takes an entry out of the cache.
C26_FullMissEvictsTheOldestOnly ==
    /\ [][\A t \in Threads :
             (tpc[t] = "remove" /\ tpc'[t] = "insert") =>
                 \E k \in Oldest(cache) : cache' = MapRemove(cache, k)]_vars
    /\ [][\A t \in Threads :
             (tpc[t] = "check_len" /\ Cardinality(DOMAIN cache) < max_cache_size) =>
                 (tpc'[t] = "check_len" \/ (tpc'[t] = "insert" /\ cache' = cache))]_vars
    /\ [][(DOMAIN cache \ DOMAIN cache' # {}) =>
             \E t \in Threads : tpc[t] = "remove" /\ tpc'[t] = "insert"]_vars

\* both threads have returned from a miss for the same path, each with the
\* synthesizer it loaded
BothLoaded(t, u) ==
    /\ t # u
    /\ tpc[t] = "holding" /\ tpc[u] = "holding"
    /\ tpath[t] = tpath[u]
    /\ held[t] # held[u]

\* C27: when two calls miss for the same path and both have returned, each
\* holds a synthesizer that has not been freed, the cache has an entry for the
\* path, and it is the entry of the later insert: an insert under a key that is
\* present replaces the entry.
C27_ConcurrentMissesLeaveTheLaterEntry ==
    /\ [](\A t, u \in Threads :
             BothLoaded(t, u) =>
                 /\ held[t] \notin Freed /\ held[u] \notin Freed
                 /\ tpath[t] \in DOMAIN cache
                 /\ cache[tpath[t]].synth \in {held[t], held[u]})
    /\ [][\A t \in Threads :
             (tpc[t] = "insert" /\ tpc'[t] = "holding") =>
                 /\ cache'[tpath[t]] = tnew[t]
                 /\ held'[t] = tnew[t].synth
                 /\ DOMAIN cache' = DOMAIN cache \cup {tpath[t]}]_vars

\* two calls, both misses for the same path, have returned; the entry is that of
\* thread 2, which inserted after thread 1
C27_Witness ==
    /\ calls = 2
    /\ BothLoaded(1, 2)
    /\ cache[tpath[1]].synth = held[2]
    /\ tnew[2] = NoEntry

\* C28: when the load fails, the call returns the error with no handle and the
\* cache is as it was, entries and timestamps, also when it is full; the size
\* check and the eviction are only reached by a call whose load succeeded.
C28_FailedLoadLeavesTheCache ==
    /\ [][\A t \in Threads :
             (tpc[t] = "load" /\ tresult'[t] = "Err") =>
                 /\ cache' = cache
                 /\ strong' = strong
                 /\ tpc'[t] = "idle"
                 /\ held'[t] = 0]_vars
    /\ [](\A t \in Threads :
             /\ tresult[t] = "Err" => tpc[t] = "idle" /\ held[t] = 0
             /\ tpc[t] \in {"check_len", "scan", "remove", "insert"} =>
                   tnew[t].synth \in DOMAIN strong /\ tresult[t] = "none")

\* a load has failed on a full cache
C28_Witness ==
    \E t \in Threads :
        /\ tresult[t] = "Err"
        /\ tpath[t] \notin DOMAIN cache
        /\ Cardinality(DOMAIN cache) = max_cache_size

\* the entries of the response cache under a key
EntriesUnder(c, k) == {i \in 1..Len(c) : c[i].key = k}

\* C29: a lookup returns an entry only if now - cached_at < 3600 s; a lookup that
\* finds its key absent or the entry past the TTL is a miss, which goes on to
\* synthesize; and the put of the fresh result leaves one entry under the key,
\* the fresh one, stamped after the call began.
C29_ExpiredEntryIsMissedAndReplaced ==
    /\ [][(Len(returns') = Len(returns) + 1 /\ Last(returns').hit) =>
             \E i \in EntriesUnder(response_cache, cache_key(Last(returns').tuple)) :
                 /\ now - response_cache[i].cached_at < response_cache_ttl
                 /\ Last(returns').result.audio_base64 = response_cache[i].audio_base64
                 /\ response_cache' = response_cache]_vars
    /\ [][rcalls' = rcalls + 1 =>
             \/ Len(returns') = Len(returns) + 1 /\ Last(returns').hit /\ rpc' = rpc
             \/ \E r \in Slots :
                   /\ rpc[r] = "idle" /\ rpc'[r] = "synth"
                   /\ returns' = returns
                   /\ \A i \in EntriesUnder(response_cache, cache_key(rtuple'[r])) :
                         now - response_cache[i].cached_at >= response_cache_ttl]_vars
    /\ [][\A r \in Slots :
             (rpc[r] = "put" /\ rpc'[r] = "idle") =>
                 \E i \in 1..Len(response_cache') :
                     /\ EntriesUnder(response_cache', cache_key(rtuple[r])) = {i}
                     /\ response_cache'[i].cached_at >= rstart[r]
                     /\ response_cache'[i].audio_base64 = rresult[r].audio_base64
                     /\ response_cache'[i].stored_for = rtuple[r]]_vars

\* a call that started 3600 s or more after the entry of its tuple was stored
\* was a miss, and its result is the entry now
C29_Witness ==
    \E i, j \in 1..Len(returns) :
        /\ i < j
        /\ returns[i].tuple = returns[j].tuple
        /\ ~returns[i].hit /\ ~returns[j].hit
        /\ returns[j].begun >= i
        /\ returns[j].start - returns[i].at >= response_cache_ttl
        /\ HasKey(response_cache, cache_key(returns[j].tuple))
        /\ Peek(response_cache, cache_key(returns[j].tuple)).cached_at = returns[j].at

\* the keys of the response cache, least recently put first
KeysOf(c) == [i \in 1..Len(c) |-> c[i].key]

\* C30: the response cache never holds more entries than its capacity, and one
\* entry per key; a put of a new key at capacity evicts exactly the entry whose
\* put is the longest ago, a put below capacity evicts nothing, and only a put
\* changes the cache or its order: a hit leaves both as they are.
C30_BoundedAndEvictsTheOldestPut ==
    /\ [](/\ Len(response_cache) <= response_cache_capacity
          /\ \A i, j \in 1..Len(response_cache) :
                response_cache[i].key = response_cache[j].key => i = j)
    /\ [][\A r \in Slots :
             (rpc[r] = "put" /\ rpc'[r] = "idle") =>
                 LET k == cache_key(rtuple[r])
                     old == KeysOf(response_cache)
                 IN  KeysOf(response_cache') =
                        IF HasKey(response_cache, k)
                          THEN Append(SelectSeq(old, LAMBDA x : x # k), k)
                          ELSE IF Len(old) < response_cache_capacity
                                 THEN Append(old, k)
                                 ELSE Append(Tail(old), k)]_vars
    /\ [][response_cache' # response_cache =>
             \E r \in Slots : rpc[r] = "put" /\ rpc'[r] = "idle"]_vars

\* three misses on three keys have returned within the TTL: the entry of the
\* first is gone, those of the second and third are left, in that order
C30_Witness ==
    /\ Len(returns) = 3
    /\ \A i \in 1..3 : ~returns[i].hit
    /\ now - returns[1].at < response_cache_ttl
    /\ Len(response_cache) = response_cache_capacity
    /\ ~HasKey(response_cache, cache_key(returns[1].tuple))
    /\ KeysOf(response_cache) = <<cache_key(returns[2].tuple), cache_key(returns[3].tuple)>>

\* C39: after a successful load, the default voice of every language given in
\* rich form is a key of the language's voices, and config_for(lang, None)
\* succeeds for every language of list_languages.
C39_DefaultVoiceIsRegistered ==
    manager.state = "loaded" =>
        /\ \A l \in DOMAIN manager.voices_map :
              manager.voices_map[l][1] \in DOMAIN manager.voices_map[l][2]
        /\ \A l \in list_languages(manager) :
              config_for(manager, Some(l), None).variant = "Ok"

BatchNext ==
    \/ Synthesize
    \/ Produce

BatchSpecInit ==
    /\ StreamIdle /\ SynthInit /\ RespInit /\ ChatIdle
    /\ SplitIdle /\ ValidateIdle /\ RegistryIdle /\ WavIdle /\ LlmIdle
    /\ BatchInit

BatchSpec == BatchSpecInit /\ [][BatchNext]_vars


(***************************************************************************)
(* Properties of batch synthesis and of the streaming producer             *)
(***************************************************************************)
\* the chunks of the text given to synthesize_with_pauses
BatchChunks == split_text_with_pauses(batch_in.text)

Synthesized == batch_out.variant = "Ok"

SpeechOf(bufs) == SelectSeq(bufs, LAMBDA b : b.kind = "speech")

SilenceOf(bufs) == SelectSeq(bufs, LAMBDA b : b.kind = "silence")

\* the samples of a sequence of sub-buffers
TotalLen(bufs) == SumSeq([k \in 1..Len(bufs) |-> bufs[k].len])

\* C33: the sub-buffers the streaming producer emits are, in order, the sub-buffers
\* of each text chunk with a silence sub-buffer after each non-terminal chunk:
\* concatenated, they are the batch output for the same text.
C33_StreamedIsBatchOutput ==
    (Synthesized /\ stream_out # NotProduced) =>
        /\ Len(SilenceOf(stream_out)) = Len(SilenceOf(batch_out.samples))
        /\ TotalLen(stream_out) = TotalLen(batch_out.samples)
        /\ stream_out = batch_out.samples

\* C34: for an empty or whitespace-only text the chunker returns no chunks, and
\* batch synthesis returns an empty buffer without a call of the synthesizer.
C34_BlankTextYieldsNoChunks ==
    (batch_out # NotSynthesized /\ trim(batch_in.text) = <<>>) =>
        /\ BatchChunks = <<>>
        /\ Synthesized
        /\ batch_out.samples = <<>>

\* the pause the terminal punctuation of a chunk asks for, in ms
PauseClass(chunk) ==
    LET t == trim_end(chunk)
        c == IF t = <<>> THEN " " ELSE Last(t)
    IN  CASE c \in {".", "!", "?"} -> 400
          [] c \in {";", ":"}      -> 250
          [] c = ","               -> 150
          [] OTHER                 -> 100

\* a buffer of zeros that lasts ms milliseconds, to within one sample
LastsMs(b, ms) ==
    /\ b.kind = "silence"
    /\ b.len * 1000 <= ms * batch_in.sample_rate
    /\ ms * batch_in.sample_rate < (b.len + 1) * 1000

\* C35: the batch output is every chunk's speech followed, for every chunk but the
\* last, by one silence whose duration is 400 ms after '.', '!' or '?', 250 ms
\* after ';' or ':', 150 ms after ',' and 100 ms otherwise; no silence follows the
\* last chunk.
C35_SilenceAfterEveryChunkButTheLast ==
    (Synthesized /\ trim(batch_in.text) # <<>>) =>
        LET n == Len(BatchChunks)
            out == batch_out.samples
        IN  /\ Len(out) = 2 * n - 1
            /\ \A k \in 1..n : out[2 * k - 1] = Speech(trim(BatchChunks[k]))
            /\ \A k \in 1..(n - 1) : LastsMs(out[2 * k], PauseClass(BatchChunks[k]))
            /\ Last(out).kind = "speech"

\* a sentence pause, a comma pause and a clause pause, then the last chunk
C35_Witness ==
    /\ Synthesized
    /\ Len(batch_out.samples) = 7
    /\ LastsMs(batch_out.samples[2], 400)
    /\ LastsMs(batch_out.samples[4], 150)
    /\ LastsMs(batch_out.samples[6], 250)

\* round(x / 1000)
RoundDiv1000(x) == (x + 500) \div 1000

\* C36: the batch output has as many samples as its chunks have, plus
\* round(pause_ms * sample_rate / 1000) zeros for every chunk but the last,
\* whether or not pause_ms * sample_rate is a multiple of 1000.
C36_LengthIsChunksPlusRoundedPauses ==
    (Synthesized /\ trim(batch_in.text) # <<>>) =>
        LET n == Len(BatchChunks)
        IN  TotalLen(batch_out.samples) =
                SumSeq([k \in 1..n |-> Speech(trim(BatchChunks[k])).len])
                + SumSeq([k \in 1..(n - 1) |->
                            RoundDiv1000(PauseClass(BatchChunks[k]) * batch_in.sample_rate)])


(***************************************************************************)
(* Properties of the LLM client                                            *)
(***************************************************************************)
\* C38: when the provider call of chat_with_history fails, the error is returned,
\* no assistant message is appended and nothing is handed to the storage, and the
\* user message pushed before the call stays the last message of the conversation.
C38_FailedCallKeepsTheUserMessage ==
    [][\A r \in ChatSlots :
          (cpc[r] = "calling" /\ cpc'[r] = "idle") =>
              /\ Len(chatLog') = Len(chatLog) + 1
              /\ Last(chatLog').response \in {"llm_error", "timeout"}
              /\ Last(chatLog').reply = NoReply
              /\ conversations' = conversations
              /\ stored' = stored
              /\ conv_id[r] \in DOMAIN conversations'
              /\ Last(conversations'[conv_id[r]]) = Message("user", creq[r].message)]_vars

\* a call has failed after an earlier call of the same conversation was stored
C38_Witness ==
    /\ chatLog # <<>>
    /\ Last(chatLog).response = "llm_error"
    /\ Last(chatLog).conv_id \in DOMAIN conversations
    /\ Last(conversations[Last(chatLog).conv_id]) = Message("user", Last(chatLog).message)
    /\ Len(stored) = 1
    /\ stored[1].id = Last(chatLog).conv_id


(***************************************************************************)
(* Specification of chat_with_history_stream: two calls whose streams are  *)
(* consumed concurrently                                                   *)
(***************************************************************************)
ChatStreamNext ==
    \/ \E r \in ChatSlots, id \in {NoId} \cup ClientIds, m \in StreamMessages,
          ps \in ProviderStreams : Stream_Call(r, id, m, ps)
    \/ \E r \in ChatSlots : Stream_Token(r)
    \/ \E r \in ChatSlots : Stream_Err(r)
    \/ \E r \in ChatSlots : Stream_End(r)
    \/ \E r \in ChatSlots : Stream_Drop(r)

ChatStreamInit ==
    /\ conversations \in StreamSeeds
    /\ llm_lock = 0
    /\ cpc = [r \in ChatSlots |-> "idle"]
    /\ creq = [r \in ChatSlots |-> [conversation_id |-> NoId, message |-> 0]]
    /\ conv_id = [r \in ChatSlots |-> NoId]
    /\ compact_messages = [r \in ChatSlots |-> <<>>]
    /\ reply = [r \in ChatSlots |-> NoReply]
    /\ timed_out = [r \in ChatSlots |-> FALSE]
    /\ chatLog = <<>>
    /\ chatCalls = 0

ChatStreamSpecInit == StreamIdle /\ SynthInit /\ RespInit /\ ChatStreamInit /\ FnIdle

ChatStreamSpec == ChatStreamSpecInit /\ [][ChatStreamNext]_vars

\* the tokens among the items a stream has yielded
TokensOf(items) ==
    LET oks == SelectSeq(items, LAMBDA y : y.ok)
    IN  [k \in 1..Len(oks) |-> oks[k].token]

\* the assistant messages of all conversations
Assistants(convs) ==
    SumSeq([k \in 1..Cardinality(DOMAIN convs) |->
              LET id == CHOOSE i \in DOMAIN convs :
                            Cardinality({j \in DOMAIN convs : j < i}) = k - 1
              IN  Len(SelectSeq(convs[id], LAMBDA msg : msg.role = "assistant"))])

\* the stream of call r ends in this step
Ends(r) == cpc[r] = "streaming" /\ cpc'[r] = "ended"

\* C37: the stream yields the tokens of the provider in the order received; when
\* the provider's stream is exhausted, exactly one assistant message, the
\* concatenation of the yielded tokens, is appended to the conversation; when it
\* yields an error, the error is yielded, the stream ends and no assistant message
\* is appended.
C37_StreamYieldsInOrderAndAppendsOnce ==
    /\ [](\A r \in ChatSlots :
            /\ TokensOf(yielded[r]) = SubSeq(token_stream[r].tokens, 1, taken[r])
            /\ \A k \in 1..(Len(yielded[r]) - 1) : yielded[r][k].ok)
    /\ [][\A r \in ChatSlots :
            /\ (Ends(r) /\ ~token_stream[r].fail) =>
                   /\ yielded'[r] = yielded[r]
                   /\ TokensOf(yielded[r]) = token_stream[r].tokens
                   /\ conversations' =
                          [conversations EXCEPT ![conv_id[r]] =
                              Append(@, Message("assistant",
                                                Flatten(TokensOf(yielded[r]))))]
            /\ (Ends(r) /\ token_stream[r].fail) =>
                   /\ yielded'[r] = Append(yielded[r], YieldErr)
                   /\ conversations' = conversations
            /\ cpc[r] \in {"ended", "dropped"} =>
                   /\ cpc'[r] = cpc[r]
                   /\ yielded'[r] = yielded[r]]_vars
    /\ [][Assistants(conversations') # Assistants(conversations) =>
            \E r \in ChatSlots : Ends(r) /\ ~token_stream[r].fail]_vars

\* on one conversation, one stream was exhausted after two tokens and its message
\* appended, the other ended with an error after a token
C37_Witness ==
    \E r, q \in ChatSlots :
        /\ cpc[r] = "ended" /\ cpc[q] = "ended"
        /\ conv_id[r] = conv_id[q]
        /\ ~token_stream[r].fail
        /\ token_stream[r].tokens = <<<<"a">>, <<"b", "c">>>>
        /\ Last(conversations[conv_id[r]]) = Message("assistant", <<"a", "b", "c">>)
        /\ token_stream[q].fail
        /\ Len(yielded[q]) = 2
        /\ ~Last(yielded[q]).ok


(***************************************************************************)
(* Specification of OpenAiClient::chat: one call.  The call runs on a      *)
(* thread of its own; every request ends (the client has a timeout) and    *)
(* every sleep ends, so a step that is possible is eventually taken.       *)
(***************************************************************************)
RetryNext ==
    \/ \E outcome \in Outcomes : O_Send(outcome)
    \/ O_Sleep
    \/ O_Exhausted

RetrySpecInit ==
    /\ StreamIdle /\ SynthInit /\ RespInit /\ ChatIdle
    /\ SplitIdle /\ ValidateIdle /\ RegistryIdle /\ WavIdle /\ BatchIdle
    /\ StorageIdle /\ TokenIdle
    /\ RetryInit

RetrySpec == RetrySpecInit /\ [][RetryNext]_vars /\ WF_vars(RetryNext)

\* the outcomes the loop retries after
RetryableOutcomes == {"429", "5xx", "transport"}

\* C40: the call returns, after at most max_retries + 1 requests; a request that
\* ends in success or in a status that is not retried is the last one and decides
\* the result; when every request ended in a retryable way there were exactly
\* max_retries + 1 of them and the result is the error of the last.
C40_ReturnsAfterAtMostMaxRetriesPlusOne ==
    /\ <>(opc = "returned")
    /\ [](/\ Len(requests) <= max_retries + 1
          /\ \A k \in 1..(Len(requests) - 1) : requests[k] \in RetryableOutcomes
          /\ opc = "returned" =>
                 /\ requests # <<>>
                 /\ oresult.attempt = Len(requests) - 1
                 /\ oresult.outcome = Last(requests)
                 /\ oresult.variant = IF Last(requests) = "ok" THEN "Ok" ELSE "Err"
                 /\ Last(requests) \in RetryableOutcomes =>
                        Len(requests) = max_retries + 1)

\* three retryable requests of different kinds, the error of the last is returned
C40_Witness ==
    /\ opc = "returned"
    /\ max_retries = 2
    /\ requests = <<"429", "transport", "5xx">>
    /\ oresult = RequestErr(2, "5xx")


====
